---- MODULE Spec2Model ----
(***************************************************************************)
(* Rule engine of legado-rule: the `||` fallback, ` && ` concatenation and *)
(* `##` clean-up operators of src/rule-engine.js and src/operators.        *)
(*                                                                         *)
(* A JavaScript string is a sequence of one-character strings.             *)
(***************************************************************************)
EXTENDS Integers, Sequences, FiniteSets, TLC

VARIABLES
    pc,         \* the pending call, then "returned" or "thrown"
    rule,       \* the rule string given to parse / parseConcatRule
    source,     \* the source document given to parse
    options,    \* the options object: separator and ignoreEmpty
    selectors,  \* what each selector given to an operator produces when executed
    ret,        \* the returned outcome
    thrown,     \* the message of the thrown error
    calls,      \* the selector rules executed, in order
    executed,   \* the indices of the selectors an operator executed, in order
    raw,        \* parseConcatRule: the slices between the delimiters
    segs,       \* parseConcatRule: the returned segments
    cache,      \* BookSourceRuleEngine: this.cache, a Map in insertion order
    now,        \* BookSourceRuleEngine: Date.now()
    enabled,    \* BookSourceRuleEngine: options.cache.enabled
    pending,    \* BookSourceRuleEngine: the parseRule calls awaiting _executeRule
    call,       \* BookSourceRuleEngine: the parseRule call that returned last
    fromCache,  \* BookSourceRuleEngine: the fromCache flag of the returned outcome
    evicted,    \* BookSourceRuleEngine: the keys the last _cacheResult deleted
    batch,      \* parseBatch: Object.entries(rules), the named rules in order
    batchRet,   \* parseBatch: the returned object
    stack,      \* RuleEngine: the parseRule calls in progress, outermost first
    descriptor, \* BookSourceRuleEngine: what _parseSelector returned
    promises    \* BookSourceRuleEngine: the promises the execute functions returned

cacheVars == <<cache, now, enabled, pending, call, fromCache, evicted>>

batchVars == <<batch, batchRet>>

facadeVars == <<stack, descriptor, promises>>

vars == <<pc, rule, source, options, selectors, ret, thrown, calls, executed, raw, segs,
          cache, now, enabled, pending, call, fromCache, evicted, batch, batchRet,
          stack, descriptor, promises>>

(***************************************************************************)
(* Bounds.                                                                 *)
(***************************************************************************)
MaxTokLen == 6

MaxSelectors == 3

MaxOperands == 3

MaxCleanParts == 4

\* options.cache.maxSize
MaxSize == 2

\* options.cache.ttl, in clock ticks
Ttl == 1

\* the clock stops here
MaxTime == 1

\* parseRule calls in flight at once
MaxPending == 2

\* named rules in one parseBatch call
MaxBatch == 2

\* pieces of a rule string given to parseFallbackRule
MaxFallbackLen == 5

\* pieces of a selector given to _parseSelector, after its prefix
MaxSelectorLen == 4

\* nested parseRule calls that fit on the call stack of the runtime
MaxStack == 11

(***************************************************************************)
(* String primitives of the JavaScript runtime.                            *)
(***************************************************************************)
SP == " "

AMP == "&"

DQ == "\""

SQ == "'"

BS == "\\"

TEXT == <<"@", "t", "e", "x", "t", ":">>

JSON == <<"@", "j", "s", "o", "n", ":">>

CSS == <<"@", "c", "s", "s", ":">>

XPATH == <<"@", "X", "P", "a", "t", "h", ":">>

REGEX == <<"@", "r", "e", "g", "e", "x", ":">>

JS == <<"@", "j", "s", ":">>

isSpace(c) == c = SP

RECURSIVE trimStart(_)
trimStart(s) == IF s # <<>> /\ isSpace(Head(s)) THEN trimStart(Tail(s)) ELSE s

RECURSIVE trimEnd(_)
trimEnd(s) ==
    IF s # <<>> /\ isSpace(s[Len(s)]) THEN trimEnd(SubSeq(s, 1, Len(s) - 1)) ELSE s

trim(s) == trimEnd(trimStart(s))

matchAt(s, i, p) ==
    /\ i >= 1
    /\ i + Len(p) - 1 <= Len(s)
    /\ SubSeq(s, i, i + Len(p) - 1) = p

startsWith(s, p) == matchAt(s, 1, p)

endsWith(s, p) == matchAt(s, Len(s) - Len(p) + 1, p)

includes(s, p) == \E i \in 1..Len(s) : matchAt(s, i, p)

\* String.prototype.indexOf, 1-based, 0 when absent
indexOf(s, p, from) ==
    IF \E i \in from..Len(s) : matchAt(s, i, p)
    THEN CHOOSE i \in from..Len(s) :
             /\ matchAt(s, i, p)
             /\ \A j \in from..(i - 1) : ~matchAt(s, j, p)
    ELSE 0

RECURSIVE join(_, _)
join(list, sep) ==
    IF list = <<>> THEN <<>>
    ELSE IF Len(list) = 1 THEN list[1]
    ELSE list[1] \o sep \o join(Tail(list), sep)

(***************************************************************************)
(* parseConcatRule (src/operators/concat.js).                              *)
(***************************************************************************)
AndToken == <<AMP, AMP>>

ConcatDelimiter == <<SP, AMP, AMP, SP>>

\* the closing quote of the literal ([^q\\]|\\.)*q scanned from position k,
\* 0 when the literal is not closed
RECURSIVE literalEnd(_, _, _)
literalEnd(s, q, k) ==
    IF k > Len(s) THEN 0
    ELSE IF s[k] = q THEN k
    ELSE IF s[k] = BS THEN (IF k + 1 <= Len(s) THEN literalEnd(s, q, k + 2) ELSE 0)
    ELSE literalEnd(s, q, k + 1)

NoMatch == [found |-> FALSE, index |-> 0, lastIndex |-> 0, isDelim |-> FALSE]

\* RegExp.exec of /"([^"\\]|\\.)*"|'([^'\\]|\\.)*'|delim/g from position `from`
RECURSIVE execRE(_, _, _)
execRE(s, delim, from) ==
    IF from > Len(s) THEN NoMatch
    ELSE IF s[from] \in {DQ, SQ} /\ literalEnd(s, s[from], from + 1) # 0
    THEN [found |-> TRUE, index |-> from,
          lastIndex |-> literalEnd(s, s[from], from + 1) + 1, isDelim |-> FALSE]
    ELSE IF matchAt(s, from, delim)
    THEN [found |-> TRUE, index |-> from,
          lastIndex |-> from + Len(delim), isDelim |-> TRUE]
    ELSE execRE(s, delim, from + 1)

RECURSIVE leftSpaces(_, _)
leftSpaces(s, i) == IF i >= 1 /\ s[i] = SP THEN 1 + leftSpaces(s, i - 1) ELSE 0

RECURSIVE rightSpaces(_, _)
rightSpaces(s, i) == IF i <= Len(s) /\ s[i] = SP THEN 1 + rightSpaces(s, i + 1) ELSE 0

illegalSpacingLoose(l, r) == l = 0 \/ r = 0

illegalSpacing(l, r) == l = 0 \/ r = 0 \/ (l >= 2 /\ r >= 2)

\* first phase: TRUE iff some bare && is illegally spaced
RECURSIVE checkPhase(_, _)
checkPhase(s, from) ==
    LET m == execRE(s, AndToken, from) IN
    IF ~m.found THEN FALSE
    ELSE IF ~m.isDelim THEN checkPhase(s, m.lastIndex)
    ELSE IF illegalSpacing(leftSpaces(s, m.index - 1), rightSpaces(s, m.lastIndex))
         THEN TRUE
         ELSE checkPhase(s, m.lastIndex)

\* second phase: the slices between the bare " && " delimiters, tail included
RECURSIVE splitPhase(_, _, _)
splitPhase(s, from, lastIndex) ==
    LET m == execRE(s, ConcatDelimiter, from) IN
    IF ~m.found THEN <<SubSeq(s, lastIndex, Len(s))>>
    ELSE IF m.isDelim
         THEN <<SubSeq(s, lastIndex, m.index - 1)>>
                  \o splitPhase(s, m.lastIndex, m.lastIndex)
         ELSE splitPhase(s, m.lastIndex, lastIndex)

pushSegmentTrimAll(seg) == trim(seg)

pushSegment(seg) ==
    LET trimmed == trim(seg) IN
    IF startsWith(trimmed, TEXT) /\ seg # trimmed /\ seg # <<>> /\ isSpace(seg[Len(seg)])
    THEN trimStart(seg)
    ELSE trimmed

SpacingError == <<"SyntaxError: illegal operator &&, use \" && \"">>

EmptySegmentError == <<"SyntaxError: both sides of \" && \" must be non-empty">>

parseConcatRuleNoEmptyCheck(ruleString) ==
    IF checkPhase(ruleString, 1)
    THEN [thrown |-> TRUE, error |-> SpacingError, raw |-> <<>>, rules |-> <<>>]
    ELSE LET slices == splitPhase(ruleString, 1, 1)
         IN [thrown |-> FALSE, error |-> <<>>, raw |-> slices,
             rules |-> [i \in 1..Len(slices) |-> pushSegment(slices[i])]]

parseConcatRule(ruleString) ==
    IF checkPhase(ruleString, 1)
    THEN [thrown |-> TRUE, error |-> SpacingError, raw |-> <<>>, rules |-> <<>>]
    ELSE LET slices == splitPhase(ruleString, 1, 1)
             rules == [i \in 1..Len(slices) |-> pushSegment(slices[i])]
             hasDelimiter == Len(slices) > 1
         IN IF hasDelimiter /\ \E i \in 1..Len(rules) : Len(rules[i]) = 0
            THEN [thrown |-> TRUE, error |-> EmptySegmentError, raw |-> slices, rules |-> <<>>]
            ELSE [thrown |-> FALSE, error |-> <<>>, raw |-> slices, rules |-> rules]

(***************************************************************************)
(* Values and outcomes.  A value is null, a string, an array of strings or *)
(* an object (given by its keys).                                          *)
(***************************************************************************)
Null == [t |-> "null", v |-> <<>>]

Str(s) == [t |-> "str", v |-> <<s>>]

Arr(list) == [t |-> "arr", v |-> list]

Obj(keys) == [t |-> "obj", v |-> keys]

isEmptyNullOnly(value) == value.t = "null"

isEmpty(value) ==
    \/ value.t = "null"
    \/ value.t = "str" /\ value.v[1] = <<>>
    \/ value.t = "arr" /\ Len(value.v) = 0
    \/ value.t = "obj" /\ Len(value.v) = 0

truthyNullish(value) == value.t # "null"

\* JavaScript truthiness, as used by `data || null`
truthy(value) ==
    /\ value.t # "null"
    /\ ~(value.t = "str" /\ value.v[1] = <<>>)

NoError == [kind |-> "none", entries |-> <<>>, message |-> <<>>]

Outcome(success, data, selector) ==
    [success |-> success, data |-> data, selector |-> selector,
     error |-> NoError, fallbackIndex |-> -1, errors |-> <<>>, processedCount |-> -1]

NoOutcome == Outcome(FALSE, Null, "none")

\* what one call produces: an outcome or a thrown error, with the selector
\* rules it ran (calls) and the sub-rule indices an operator ran (executed)
Returned(out, log, ran) ==
    [thrown |-> FALSE, message |-> <<>>, out |-> out, calls |-> log, executed |-> ran]

Thrown(message, log, ran) ==
    [thrown |-> TRUE, message |-> message, out |-> NoOutcome, calls |-> log,
     executed |-> ran]

(***************************************************************************)
(* Selector adapters.  The query evaluators are external; a source is      *)
(* given by what each expression matches in it.                            *)
(***************************************************************************)
Sources == {"html", "json"}

NoAttr == <<"undefined">>

Element(html, attrI) == [html |-> html, i |-> attrI]

\* the elements of the HTML document an expression selects ($(expression))
Elements(src, expression) ==
    IF src # "html" THEN <<>>
    ELSE CASE expression = <<"h">> -> <<Element(<<"a", "b">>, NoAttr)>>
           [] expression = <<"g">> -> <<Element(<<"c">>, <<"d">>)>>
           [] expression = <<"w">> -> <<Element(<<SP>>, NoAttr)>>
           [] expression = <<"m">> -> <<Element(<<"a">>, NoAttr), Element(<<"b">>, NoAttr)>>
           [] expression = <<"e">> -> <<Element(<<>>, NoAttr)>>
           [] OTHER -> <<>>

\* String.prototype.lastIndexOf for one character, 1-based, 0 when absent
lastIndexOf(s, c) ==
    IF \E i \in 1..Len(s) : s[i] = c
    THEN CHOOSE i \in 1..Len(s) : s[i] = c /\ \A j \in (i + 1)..Len(s) : s[j] # c
    ELSE 0

parseCssExpression(expression) ==
    LET atIndex == lastIndexOf(expression, "@") IN
    IF atIndex = 0 THEN [expression |-> expression, attribute |-> <<>>]
    ELSE [expression |-> SubSeq(expression, 1, atIndex - 1),
          attribute |-> SubSeq(expression, atIndex + 1, Len(expression))]

\* the value extractCssResult takes from one element; <<>> stands for every
\* empty value (null, undefined, '')
elementValue(el, attribute) ==
    IF attribute = <<>> \/ attribute = <<"h", "t", "m", "l">> THEN el.html
    ELSE IF attribute = <<"t", "e", "x", "t">> THEN trim(el.html)
    ELSE IF attribute = <<"i">> /\ el.i # NoAttr THEN el.i
    ELSE <<>>

RECURSIVE nonEmptyValues(_, _)
nonEmptyValues(elements, attribute) ==
    IF elements = <<>> THEN <<>>
    ELSE LET value == elementValue(Head(elements), attribute)
             rest == nonEmptyValues(Tail(elements), attribute)
         IN IF value = <<>> THEN rest ELSE <<value>> \o rest

extractCssResult(elements, attribute) ==
    LET results == nonEmptyValues(elements, attribute) IN
    IF Len(results) = 1 THEN Str(results[1]) ELSE Arr(results)

cssSelector(src, selector) ==
    LET parsed == parseCssExpression(selector)
        elements == Elements(src, parsed.expression)
    IN IF Len(elements) = 0
       THEN Returned(Outcome(FALSE, Null, "css"), <<selector>>, <<>>)
       ELSE LET result == extractCssResult(elements, parsed.attribute)
            IN Returned(Outcome(~isEmpty(result), result, "css"), <<selector>>, <<>>)

CONTAINS == <<":", "c", "o", "n", "t", "a", "i", "n", "s", "(">>

\* containsText.replace(/['"]/g, '')
RECURSIVE withoutQuotes(_)
withoutQuotes(s) ==
    IF s = <<>> THEN <<>>
    ELSE IF Head(s) \in {DQ, SQ} THEN withoutQuotes(Tail(s))
    ELSE <<Head(s)>> \o withoutQuotes(Tail(s))

RECURSIVE containing(_, _)
containing(elements, text) ==
    IF elements = <<>> THEN <<>>
    ELSE IF text = <<>> \/ includes(Head(elements).html, text)
    THEN <<Head(elements)>> \o containing(Tail(elements), text)
    ELSE containing(Tail(elements), text)

\* selector.match(/^(.+):contains\((.+?)\)(.*)$/) for a selector with one
\* ":contains(" and the filter that follows; a descendant expression after
\* the filter selects nothing in the documents of the model
cssContainsSelector(src, selector) ==
    LET at == indexOf(selector, CONTAINS, 2)
        open == at + Len(CONTAINS)
        close == IF at = 0 THEN 0 ELSE indexOf(selector, <<")">>, open + 1)
    IN IF at = 0 \/ close = 0 THEN cssSelector(src, selector)
       ELSE LET baseSelector == SubSeq(selector, 1, at - 1)
                containsText == SubSeq(selector, open, close - 1)
                afterContains == SubSeq(selector, close + 1, Len(selector))
                filteredElements == containing(Elements(src, baseSelector),
                                               withoutQuotes(containsText))
                parsed == parseCssExpression(afterContains)
            IN IF Len(filteredElements) = 0
               THEN Returned(Outcome(FALSE, Null, "css"), <<selector>>, <<>>)
               ELSE IF afterContains # <<>> /\ parsed.expression # <<>>
               THEN Returned(Outcome(FALSE, extractCssResult(<<>>, parsed.attribute), "css"),
                             <<selector>>, <<>>)
               ELSE IF afterContains # <<>> /\ parsed.attribute # <<>>
               THEN Returned(Outcome(TRUE,
                                     extractCssResult(filteredElements, parsed.attribute),
                                     "css"),
                             <<selector>>, <<>>)
               ELSE Returned(Outcome(TRUE, extractCssResult(filteredElements, <<>>), "css"),
                             <<selector>>, <<>>)

JsonParseError == <<"JSON selector failed", "JSON.parse failed">>

JsonPathError == <<"JSON selector failed", "invalid path">>

\* JSONPath.query on the JSON document
JsonQuery(path) ==
    CASE path = <<"h">> -> <<Str(<<"a", "b">>)>>
      [] path = <<"g">> -> <<Str(<<"c">>)>>
      [] path = <<"w">> -> <<Str(<<SP>>)>>
      [] path = <<"m">> -> <<Str(<<"a">>), Str(<<"b">>)>>
      [] path = <<"e">> -> <<Str(<<>>)>>
      [] path = <<"o">> -> <<Obj(<<>>)>>
      [] OTHER -> <<>>

extractJsonResult(result) ==
    IF Len(result) = 0 THEN Null
    ELSE IF Len(result) = 1 THEN result[1]
    ELSE Arr([i \in 1..Len(result) |-> result[i].v[1]])

jsonSelectorNoThrow(src, path) ==
    IF src # "json" \/ path = <<>>
    THEN Returned(Outcome(FALSE, Null, "json"), <<JSON \o path>>, <<>>)
    ELSE LET result == JsonQuery(path) IN
         IF Len(result) = 0
         THEN Returned(Outcome(FALSE, Null, "json"), <<JSON \o path>>, <<>>)
         ELSE LET extractedData == extractJsonResult(result)
              IN Returned(Outcome(~isEmpty(extractedData), extractedData, "json"),
                          <<JSON \o path>>, <<>>)

jsonSelector(src, path) ==
    IF src # "json" THEN Thrown(JsonParseError, <<JSON \o path>>, <<>>)
    ELSE IF path = <<>> THEN Thrown(JsonPathError, <<JSON \o path>>, <<>>)
    ELSE LET result == JsonQuery(path) IN
         IF Len(result) = 0
         THEN Returned(Outcome(FALSE, Null, "json"), <<JSON \o path>>, <<>>)
         ELSE LET extractedData == extractJsonResult(result)
              IN Returned(Outcome(~isEmpty(extractedData), extractedData, "json"),
                          <<JSON \o path>>, <<>>)

textSelector(text) == Returned(Outcome(TRUE, Str(text), "text"), <<TEXT \o text>>, <<>>)

\* every occurrence of the non-empty literal pat in s replaced by rep
RECURSIVE replaceAll(_, _, _)
replaceAll(s, pat, rep) ==
    IF s = <<>> THEN <<>>
    ELSE IF matchAt(s, 1, pat)
    THEN rep \o replaceAll(SubSeq(s, Len(pat) + 1, Len(s)), pat, rep)
    ELSE <<Head(s)>> \o replaceAll(Tail(s), pat, rep)

quotedTextSelector(quotedText) ==
    LET sliced == SubSeq(quotedText, 2, Len(quotedText) - 1)
        text == replaceAll(replaceAll(replaceAll(sliced, <<BS, DQ>>, <<DQ>>),
                                      <<BS, SQ>>, <<SQ>>), <<BS, BS>>, <<BS>>)
    IN Returned(Outcome(TRUE, Str(text), "text"), <<TEXT \o quotedText>>, <<>>)

\* the regex selector: a literal pattern that occurs in the text of the
\* HTML document matches, any other pattern matches nothing
regexSelector(src, pattern) ==
    IF src = "html" /\ pattern \in {<<"a">>, <<"b">>}
    THEN Returned(Outcome(TRUE, Str(pattern), "regex"), <<REGEX \o pattern>>, <<>>)
    ELSE Returned(Outcome(FALSE, Null, "regex"), <<REGEX \o pattern>>, <<>>)

JsExecError == <<"JavaScript selector failed">>

JsDisabledError == <<"JavaScript selector disabled">>

\* options.enableJS of RuleEngine
enableJS == TRUE

\* the js selector: `return ${code}` gives the string of a string literal
\* and throws on the identifiers, which the context does not define
jsSelector(code) ==
    IF Len(code) >= 2 /\ Head(code) = DQ /\ code[Len(code)] = DQ
          /\ \A i \in 2..(Len(code) - 1) : code[i] \notin {DQ, BS}
    THEN LET result == Str(SubSeq(code, 2, Len(code) - 1))
         IN Returned(Outcome(~isEmpty(result), result, "js"), <<JS \o code>>, <<>>)
    ELSE Thrown(JsExecError, <<JS \o code>>, <<>>)

parseSingleSelector(src, r) ==
    LET isTextSelector == startsWith(trim(r), TEXT)
        workingRule == IF isTextSelector THEN r ELSE trim(r)
        trimmedRule == trim(workingRule)
    IN IF startsWith(trimmedRule, CSS)
       THEN LET selector == SubSeq(trimmedRule, 6, Len(trimmedRule)) IN
            IF includes(selector, CONTAINS)
            THEN cssContainsSelector(src, selector)
            ELSE cssSelector(src, selector)
       ELSE IF startsWith(trimmedRule, XPATH)
       THEN Returned([Outcome(FALSE, Null, "xpath") EXCEPT
                         !.error = [kind |-> "message", entries |-> <<>>,
                                    message |-> <<"XPath selector not implemented">>]],
                     <<trimmedRule>>, <<>>)
       ELSE IF startsWith(trimmedRule, JSON)
       THEN jsonSelector(src, SubSeq(trimmedRule, 7, Len(trimmedRule)))
       ELSE IF startsWith(trimmedRule, REGEX)
       THEN regexSelector(src, SubSeq(trimmedRule, 8, Len(trimmedRule)))
       ELSE IF startsWith(trimmedRule, JS)
       THEN IF ~enableJS
            THEN Thrown(JsDisabledError, <<>>, <<>>)
            ELSE jsSelector(SubSeq(trimmedRule, 5, Len(trimmedRule)))
       ELSE IF startsWith(trimmedRule, TEXT)
       THEN LET text == SubSeq(workingRule, 7, Len(workingRule)) IN
            IF \/ startsWith(text, <<DQ>>) /\ endsWith(text, <<DQ>>)
               \/ startsWith(text, <<SQ>>) /\ endsWith(text, <<SQ>>)
            THEN quotedTextSelector(text)
            ELSE textSelector(text)
       ELSE IF includes(trimmedRule, CONTAINS)
       THEN cssContainsSelector(src, trimmedRule)
       ELSE cssSelector(src, trimmedRule)

(***************************************************************************)
(* fallbackOperator and parseFallbackRule (operators/fallback.js).  The    *)
(* operator receives, for each selector, what its execute produces.        *)
(***************************************************************************)
errorEntry(index, message) == [index |-> index, error |-> message]

EmptyResult == <<"empty result">>

isValidResultNoEmptyCheck(result) == result.out.success

isValidResult(result) == result.out.success /\ ~isEmpty(result.out.data)

\* the code after the loop: the last selector is executed once more
fallbackFinal(results, errors, log, ran) ==
    IF Len(results) = 0
    THEN Returned([Outcome(FALSE, Null, "fallback") EXCEPT
                      !.error = [kind |-> "finalFailed", entries |-> <<>>,
                                 message |-> <<"TypeError">>]],
                  log, ran)
    ELSE LET last == Len(results)
             lastResult == results[last]
             log2 == log \o lastResult.calls
             ran2 == Append(ran, last - 1)
         IN IF lastResult.thrown
            THEN Returned([Outcome(FALSE, Null, "fallback") EXCEPT
                              !.error = [kind |-> "finalFailed", entries |-> <<>>,
                                         message |-> lastResult.message]],
                          log2, ran2)
            ELSE Returned([Outcome(FALSE,
                                   IF truthy(lastResult.out.data)
                                   THEN lastResult.out.data ELSE Null,
                                   "fallback") EXCEPT
                              !.error = [kind |-> "allFailed", entries |-> errors,
                                         message |-> <<>>],
                              !.fallbackIndex = last - 1],
                          log2, ran2)

RECURSIVE fallbackLoop(_, _, _, _, _)

fallbackLoopNoCatch(results, i, errors, log, ran) ==
    IF i >= Len(results) THEN fallbackFinal(results, errors, log, ran)
    ELSE LET result == results[i + 1]
             log2 == log \o result.calls
             ran2 == Append(ran, i)
         IN IF result.thrown
            THEN Thrown(result.message, log2, ran2)
            ELSE IF isValidResult(result)
            THEN Returned([Outcome(TRUE, result.out.data, "fallback") EXCEPT
                              !.fallbackIndex = i],
                          log2, ran2)
            ELSE fallbackLoop(results, i + 1,
                              Append(errors, errorEntry(i, EmptyResult)), log2, ran2)

fallbackLoop(results, i, errors, log, ran) ==
    IF i >= Len(results) THEN fallbackFinal(results, errors, log, ran)
    ELSE LET result == results[i + 1]
             log2 == log \o result.calls
             ran2 == Append(ran, i)
         IN IF result.thrown
            THEN fallbackLoop(results, i + 1,
                              Append(errors, errorEntry(i, result.message)), log2, ran2)
            ELSE IF isValidResult(result)
            THEN Returned([Outcome(TRUE, result.out.data, "fallback") EXCEPT
                              !.fallbackIndex = i],
                          log2, ran2)
            ELSE fallbackLoop(results, i + 1,
                              Append(errors, errorEntry(i, EmptyResult)), log2, ran2)

fallbackOperator(results) == fallbackLoop(results, 0, <<>>, <<>>, <<>>)

RECURSIVE fallbackScan(_, _, _, _, _)
fallbackScan(s, i, current, inString, stringChar) ==
    IF i > Len(s)
    THEN (IF trim(current) # <<>> THEN <<trim(current)>> ELSE <<>>)
    ELSE LET char == s[i] IN
         IF ~inString /\ char \in {DQ, SQ}
         THEN fallbackScan(s, i + 1, Append(current, char), TRUE, char)
         ELSE IF inString /\ char = stringChar
         THEN fallbackScan(s, i + 1, Append(current, char), FALSE, "")
         ELSE IF ~inString /\ char = "|" /\ i + 1 <= Len(s) /\ s[i + 1] = "|"
         THEN <<trim(current)>> \o fallbackScan(s, i + 2, <<>>, FALSE, "")
         ELSE fallbackScan(s, i + 1, Append(current, char), inString, stringChar)

parseFallbackRule(ruleString) == fallbackScan(ruleString, 1, <<>>, FALSE, "")

(***************************************************************************)
(* concatOperator (operators/concat.js).                                   *)
(***************************************************************************)
stringifyObject(keys) == <<"{">> \o join(keys, <<",">>) \o <<"}">>

processDataForConcatTrimAll(data, selector) ==
    IF data.t = "null" THEN <<>>
    ELSE IF data.t = "str" THEN trim(data.v[1])
    ELSE IF data.t = "arr" THEN (IF Len(data.v) > 0 THEN trim(data.v[1]) ELSE <<>>)
    ELSE stringifyObject(data.v)

processDataForConcat(data, selector) ==
    IF data.t = "null" THEN <<>>
    ELSE IF data.t = "str"
    THEN (IF selector = "text" THEN data.v[1] ELSE trim(data.v[1]))
    ELSE IF data.t = "arr"
    THEN (IF Len(data.v) > 0
          THEN (IF selector = "text" THEN data.v[1] ELSE trim(data.v[1]))
          ELSE <<>>)
    ELSE stringifyObject(data.v)

IgnoredEmptyResult == <<"empty result (ignored)">>

hasDataIgnoringSuccess(result) == ~isEmpty(result.out.data)

\* result.success && !isEmpty(result.data)
hasData(result) == result.out.success /\ ~isEmpty(result.out.data)

RECURSIVE concatLoop(_, _, _, _, _, _)
concatLoop(results, i, ignoreEmpty, parts, errors, log) ==
    IF i >= Len(results) THEN [results |-> parts, errors |-> errors, calls |-> log]
    ELSE LET result == results[i + 1]
             log2 == log \o result.calls
         IN IF result.thrown
            THEN concatLoop(results, i + 1, ignoreEmpty,
                            IF ignoreEmpty THEN parts ELSE Append(parts, <<>>),
                            Append(errors, errorEntry(i, result.message)), log2)
            ELSE IF hasData(result)
            THEN concatLoop(results, i + 1, ignoreEmpty,
                            Append(parts, processDataForConcat(result.out.data,
                                                               result.out.selector)),
                            errors, log2)
            ELSE IF ~ignoreEmpty
            THEN concatLoop(results, i + 1, ignoreEmpty, Append(parts, <<>>),
                            Append(errors, errorEntry(i, EmptyResult)), log2)
            ELSE concatLoop(results, i + 1, ignoreEmpty, parts,
                            Append(errors, errorEntry(i, IgnoredEmptyResult)), log2)

concatOperator(results, separator, ignoreEmpty) ==
    LET loop == concatLoop(results, 0, ignoreEmpty, <<>>, <<>>, <<>>)
        finalResult == join(loop.results, separator)
    IN Returned([Outcome(~isEmpty(Str(finalResult)), Str(finalResult), "concat") EXCEPT
                    !.errors = loop.errors,
                    !.processedCount = Len(loop.results)],
                loop.calls, [i \in 1..Len(results) |-> i - 1])

(***************************************************************************)
(* regexCleanOperator and parseCleanRule (operators/regex-clean.js).  A    *)
(* pattern is a literal, or is no regular expression: the rules of the     *)
(* model have no regex operator but the unclosed bracket.                  *)
(***************************************************************************)
CleanDelimiter == <<"#", "#">>

RECURSIVE split(_, _)
split(s, d) ==
    LET i == indexOf(s, d, 1) IN
    IF i = 0 THEN <<s>>
    ELSE <<SubSeq(s, 1, i - 1)>> \o split(SubSeq(s, i + Len(d), Len(s)), d)

convertToString(input) ==
    IF input.t = "str" THEN input.v[1]
    ELSE IF input.t = "arr" THEN join(input.v, <<SP>>)
    ELSE IF input.t = "null" THEN <<>>
    ELSE <<"[", "o", "b", "j", "e", "c", "t", SP, "O", "b", "j", "e", "c", "t", "]">>

cleanText(input, pattern, replacement) ==
    LET text == convertToString(input) IN
    IF text = <<>> THEN text ELSE replaceAll(text, pattern, replacement)

regexCleanOperator(text, pattern, replacement) ==
    LET result == cleanText(text, pattern, replacement) IN
    Outcome(~isEmpty(Str(result)), Str(result), "regex-clean")

InvalidCleanRule == <<"invalid clean rule format">>

\* new RegExp(pattern, flags) accepts the pattern: of the characters of the
\* model only an unclosed [ makes a pattern invalid
validPattern(pattern) == ~includes(pattern, <<"[">>)

\* the RuleParseError of regexCleanOperator, which carries the message of
\* parseCleanPattern and with it the pattern
InvalidPatternError(pattern) ==
    <<"regex clean failed", "invalid regular expression">> \o pattern

\* cleanText reaches parseCleanPattern, and it throws
cleanThrows(input, pattern) ==
    convertToString(input) # <<>> /\ ~validPattern(pattern)

\* ruleString.match(/^##(.+?)##(.*)$/)
parseCleanRule(ruleString) ==
    LET rest == SubSeq(ruleString, 3, Len(ruleString))
        j == indexOf(rest, CleanDelimiter, 2)
    IN IF ~startsWith(ruleString, CleanDelimiter) \/ j = 0
       THEN [matched |-> FALSE, pattern |-> <<>>, replacement |-> <<>>]
       ELSE [matched |-> TRUE, pattern |-> SubSeq(rest, 1, j - 1),
             replacement |-> SubSeq(rest, j + 2, Len(rest))]

(***************************************************************************)
(* RuleEngine (rule-engine.js).                                            *)
(***************************************************************************)
OrToken == <<"|", "|">>

EmptyRuleError == <<"rule must not be empty">>

RuleEngine_parseCleanRule(src, r) ==
    LET parts == split(r, CleanDelimiter) IN
    IF Len(parts) < 3 THEN Thrown(InvalidCleanRule, <<>>, <<>>)
    ELSE LET selectorPart == parts[1]
             cleanRule == CleanDelimiter \o parts[2] \o CleanDelimiter
                              \o join(SubSeq(parts, 3, Len(parts)), CleanDelimiter)
             selectorResult == parseSingleSelector(src, selectorPart)
         IN IF selectorResult.thrown THEN selectorResult
            ELSE IF ~selectorResult.out.success \/ isEmpty(selectorResult.out.data)
            THEN selectorResult
            ELSE LET parsed == parseCleanRule(cleanRule) IN
                 IF ~parsed.matched
                 THEN Thrown(InvalidCleanRule, selectorResult.calls, <<>>)
                 ELSE IF cleanThrows(selectorResult.out.data, parsed.pattern)
                 THEN Thrown(InvalidPatternError(parsed.pattern),
                             selectorResult.calls, <<>>)
                 ELSE Returned(regexCleanOperator(selectorResult.out.data,
                                                  parsed.pattern, parsed.replacement),
                               selectorResult.calls, <<>>)

RECURSIVE parseRule(_, _, _)

RuleEngine_parseFallbackRule(src, r, opts) ==
    LET rules == parseFallbackRule(r) IN
    fallbackOperator([i \in 1..Len(rules) |-> parseRule(src, rules[i], opts)])

RuleEngine_parseConcatRule(src, r, opts) ==
    LET parsed == parseConcatRule(r) IN
    IF parsed.thrown THEN Thrown(parsed.error, <<>>, <<>>)
    ELSE concatOperator([i \in 1..Len(parsed.rules) |->
                            parseRule(src, parsed.rules[i], opts)],
                        opts.separator, opts.ignoreEmpty)

parseRuleConcatFirst(src, r, opts) ==
    IF r = <<>> THEN Thrown(EmptyRuleError, <<>>, <<>>)
    ELSE IF includes(r, AndToken) THEN RuleEngine_parseConcatRule(src, r, opts)
    ELSE IF includes(r, OrToken) THEN RuleEngine_parseFallbackRule(src, r, opts)
    ELSE IF includes(r, CleanDelimiter) THEN RuleEngine_parseCleanRule(src, r)
    ELSE parseSingleSelector(src, r)

parseRule(src, r, opts) ==
    IF r = <<>> THEN Thrown(EmptyRuleError, <<>>, <<>>)
    ELSE IF includes(r, OrToken) THEN RuleEngine_parseFallbackRule(src, r, opts)
    ELSE IF includes(r, AndToken) THEN RuleEngine_parseConcatRule(src, r, opts)
    ELSE IF includes(r, CleanDelimiter) THEN RuleEngine_parseCleanRule(src, r)
    ELSE parseSingleSelector(src, r)

ParseFailed == "rule parse failed"

\* the catch block of parse: an error is wrapped in a RuleParseError
rethrow(result) ==
    IF result.thrown
    THEN Thrown(<<ParseFailed>> \o result.message, result.calls, result.executed)
    ELSE result

parse(src, r, opts) == rethrow(parseRule(src, r, opts))

(***************************************************************************)
(* RuleEngine.parseBatch.  An object is given by its own enumerable        *)
(* properties in insertion order and by its prototype when one was set;    *)
(* the rules object arrives as its entries.                                *)
(***************************************************************************)
ProtoKey == "__proto__"

Property(key, value) == [key |-> key, value |-> value]

EmptyObject == [own |-> <<>>, proto |-> <<>>]

hasOwn(obj, key) == \E i \in 1..Len(obj.own) : obj.own[i].key = key

\* obj[key] = value, the value being an object: the key __proto__ sets the
\* prototype and creates no property; a key already there keeps its place
setProperty(obj, key, value) ==
    IF key = ProtoKey THEN [obj EXCEPT !.proto = <<value>>]
    ELSE IF hasOwn(obj, key)
    THEN [obj EXCEPT !.own = [i \in 1..Len(obj.own) |->
                                 IF obj.own[i].key = key THEN Property(key, value)
                                 ELSE obj.own[i]]]
    ELSE [obj EXCEPT !.own = Append(obj.own, Property(key, value))]

\* Object.values(obj)
objectValues(obj) == [i \in 1..Len(obj.own) |-> obj.own[i].value]

\* the outcome parseBatch stores for a rule whose parse throws
unknownOutcome(message) ==
    [Outcome(FALSE, Null, "unknown") EXCEPT
        !.error = [kind |-> "message", entries |-> <<>>, message |-> message]]

batchError(entry, message) == [key |-> entry.key, rule |-> entry.value, error |-> message]

BatchState(results, errors) == [results |-> results, errors |-> errors]

\* the body of the loop of parseBatch for one entry, `result` being what
\* this.parse produces for its rule
batchStep(state, entry, result) ==
    IF result.thrown
    THEN BatchState(setProperty(state.results, entry.key, unknownOutcome(result.message)),
                    Append(state.errors, batchError(entry, result.message)))
    ELSE BatchState(setProperty(state.results, entry.key, result.out), state.errors)

RECURSIVE batchLoop(_, _, _, _, _)
batchLoop(src, entries, opts, i, state) ==
    IF i > Len(entries) THEN state
    ELSE batchLoop(src, entries, opts, i + 1,
                   batchStep(state, entries[i], parse(src, entries[i].value, opts)))

Undefined == [kind |-> "undefined", items |-> <<>>]

ErrorList(items) == [kind |-> "array", items |-> items]

\* .filter(r => r.success).length
successes(values) == Cardinality({i \in 1..Len(values) : values[i].success})

batchReturn(state, entries) ==
    [results |-> state.results,
     errors |-> IF Len(state.errors) > 0 THEN ErrorList(state.errors) ELSE Undefined,
     successCount |-> successes(objectValues(state.results)),
     totalCount |-> Len(entries)]

parseBatch(src, entries, opts) ==
    batchReturn(batchLoop(src, entries, opts, 1, BatchState(EmptyObject, <<>>)), entries)

NoBatchReturn ==
    [results |-> EmptyObject, errors |-> Undefined, successCount |-> 0, totalCount |-> 0]

BatchUnused == batch = <<>> /\ batchRet = NoBatchReturn

NoIndex == [type |-> "none", values |-> <<>>]

NoDescriptor == [selectorType |-> "none", expression |-> <<>>, index |-> NoIndex]

FacadeUnused == stack = <<>> /\ descriptor = NoDescriptor /\ promises = <<>>

(***************************************************************************)
(* The result cache of BookSourceRuleEngine (src/types.js).  A document is *)
(* given by its first 100 characters (head) and by the text of the element *)
(* the rules select (body); the context is the empty object.  The Map is   *)
(* the sequence of its entries in insertion order.                         *)
(***************************************************************************)
Doc(head, body) == [head |-> head, body |-> body]

\* source.substring(0, 100)
sourceKey(doc) == doc.head

\* JSON.stringify({})
contextKey == "{}"

generateCacheKey(r, doc) == r \o <<"|", sourceKey(doc), "|", contextKey>>

\* _executeRule on one selector: h selects the element, n selects nothing,
\* any other rule selects an element whose text is the rule's name
executeRule(r, doc) ==
    IF r = <<"h">> THEN Outcome(TRUE, Str(doc.body), "css")
    ELSE IF r = <<"n">> THEN Outcome(FALSE, Null, "css")
    ELSE Outcome(TRUE, Str(r), "css")

cacheHas(map, key) == \E i \in 1..Len(map) : map[i].key = key

cacheGet(map, key) == map[CHOOSE i \in 1..Len(map) : map[i].key = key]

cacheDelete(map, key) == SelectSeq(map, LAMBDA e : e.key # key)

cacheSetAppend(map, key, entry) == Append(map, entry)

\* Map.prototype.set: a present key keeps its place
cacheSet(map, key, entry) ==
    IF cacheHas(map, key)
    THEN [i \in 1..Len(map) |-> IF map[i].key = key THEN entry ELSE map[i]]
    ELSE Append(map, entry)

evictLast(map) == IF Len(map) >= MaxSize THEN SubSeq(map, 1, Len(map) - 1) ELSE map

\* the first key is deleted when the Map is full
evictFirst(map) == IF Len(map) >= MaxSize THEN Tail(map) ELSE map

\* the keys of `before` that `after` has lost, in order
deletedKeys(before, after) ==
    LET lost == SelectSeq(before, LAMBDA e : ~cacheHas(after, e.key))
    IN [i \in 1..Len(lost) |-> lost[i].key]

cacheResult(map, key, result, time) ==
    cacheSet(evictFirst(map), key, [key |-> key, result |-> result, timestamp |-> time])

freshLoose(entry, time) == time - entry.timestamp <= Ttl

\* Date.now() - cached.timestamp < this.options.cache.ttl
fresh(entry, time) == time - entry.timestamp < Ttl

NoCall == [rule |-> <<>>, doc |-> Doc("", <<>>)]

CacheUnused ==
    /\ cache = <<>>
    /\ now = 0
    /\ enabled = FALSE
    /\ pending = <<>>
    /\ call = NoCall
    /\ fromCache = FALSE
    /\ evicted = <<>>

(***************************************************************************)
(* Tokenizer specification: parseConcatRule applied to every rule string   *)
(* made of at most MaxTokLen pieces of TokPieces.                          *)
(***************************************************************************)
TokPieces == {<<"a">>, <<SP>>, <<AMP>>, <<AMP, AMP>>, <<DQ>>, TEXT}

\* the strings made of at most n pieces of S
RECURSIVE PiecesUpTo(_, _)
PiecesUpTo(S, n) ==
    IF n = 0 THEN {<<>>}
    ELSE LET shorter == PiecesUpTo(S, n - 1)
         IN shorter \cup {s \o c : s \in shorter, c \in S}

DefaultOptions == [separator |-> <<>>, ignoreEmpty |-> TRUE]

InitTok ==
    /\ pc = "parseConcatRule"
    /\ rule \in PiecesUpTo(TokPieces, MaxTokLen)
    /\ source = "none"
    /\ options = DefaultOptions
    /\ selectors = <<>>
    /\ ret = NoOutcome
    /\ thrown = <<>>
    /\ calls = <<>>
    /\ executed = <<>>
    /\ raw = <<>>
    /\ segs = <<>>
    /\ CacheUnused
    /\ BatchUnused
    /\ FacadeUnused

TokReturn ==
    /\ pc = "parseConcatRule"
    /\ LET parsed == parseConcatRule(rule) IN
         /\ ~parsed.thrown
         /\ raw' = parsed.raw
         /\ segs' = parsed.rules
    /\ pc' = "returned"
    /\ UNCHANGED <<rule, source, options, selectors, ret, thrown, calls, executed>>
    /\ UNCHANGED cacheVars
    /\ UNCHANGED facadeVars
    /\ UNCHANGED batchVars

TokThrow ==
    /\ pc = "parseConcatRule"
    /\ LET parsed == parseConcatRule(rule) IN
         /\ parsed.thrown
         /\ thrown' = parsed.error
         /\ raw' = parsed.raw
    /\ pc' = "thrown"
    /\ UNCHANGED <<rule, source, options, selectors, ret, calls, executed, segs>>
    /\ UNCHANGED cacheVars
    /\ UNCHANGED facadeVars
    /\ UNCHANGED batchVars

NextTok == TokReturn \/ TokThrow

SpecTok == InitTok /\ [][NextTok]_vars

(***************************************************************************)
(* Operator specification: fallbackOperator and concatOperator applied to  *)
(* every list of at most MaxSelectors selectors, a selector being given by *)
(* what its execute produces.                                              *)
(***************************************************************************)
Boom == <<"selector threw">>

Behaviours ==
    { Returned(Outcome(TRUE, Str(<<"a", "b">>), "css"), <<>>, <<>>),
      Returned(Outcome(TRUE, Str(<<"c", SP>>), "text"), <<>>, <<>>),
      Returned(Outcome(TRUE, Str(<<SP>>), "css"), <<>>, <<>>),
      Returned(Outcome(TRUE, Str(<<>>), "text"), <<>>, <<>>),
      Returned(Outcome(FALSE, Null, "css"), <<>>, <<>>),
      Returned(Outcome(FALSE, Str(<<>>), "json"), <<>>, <<>>),
      Returned(Outcome(FALSE, Arr(<<>>), "css"), <<>>, <<>>),
      Returned(Outcome(FALSE, Str(<<"d">>), "xpath"), <<>>, <<>>),
      Thrown(Boom, <<>>, <<>>) }

RECURSIVE ListsUpTo(_, _)
ListsUpTo(S, n) ==
    IF n = 0 THEN {<<>>}
    ELSE LET shorter == ListsUpTo(S, n - 1)
         IN shorter \cup {Append(s, c) : s \in {t \in shorter : Len(t) = n - 1}, c \in S}

OptionSets ==
    { DefaultOptions,
      [separator |-> <<"-">>, ignoreEmpty |-> TRUE],
      [separator |-> <<>>, ignoreEmpty |-> FALSE],
      [separator |-> <<"-">>, ignoreEmpty |-> FALSE] }

InitOps ==
    /\ pc \in {"fallbackOperator", "concatOperator"}
    /\ selectors \in ListsUpTo(Behaviours, MaxSelectors) \ {<<>>}
    /\ rule = <<>>
    /\ source = "none"
    /\ options = DefaultOptions
    /\ ret = NoOutcome
    /\ thrown = <<>>
    /\ calls = <<>>
    /\ executed = <<>>
    /\ raw = <<>>
    /\ segs = <<>>
    /\ CacheUnused
    /\ BatchUnused
    /\ FacadeUnused

FallbackCall ==
    /\ pc = "fallbackOperator"
    /\ LET result == fallbackOperator(selectors) IN
         /\ ret' = result.out
         /\ calls' = result.calls
         /\ executed' = result.executed
    /\ pc' = "returned"
    /\ UNCHANGED <<rule, source, options, selectors, thrown, raw, segs>>
    /\ UNCHANGED cacheVars
    /\ UNCHANGED facadeVars
    /\ UNCHANGED batchVars

ConcatCall ==
    /\ pc = "concatOperator"
    /\ \E opts \in OptionSets :
         LET result == concatOperator(selectors, opts.separator, opts.ignoreEmpty) IN
         /\ options' = opts
         /\ ret' = result.out
         /\ calls' = result.calls
         /\ executed' = result.executed
    /\ pc' = "returned"
    /\ UNCHANGED <<rule, source, selectors, thrown, raw, segs>>
    /\ UNCHANGED cacheVars
    /\ UNCHANGED facadeVars
    /\ UNCHANGED batchVars

NextOps == FallbackCall \/ ConcatCall

SpecOps == InitOps /\ [][NextOps]_vars

(***************************************************************************)
(* Engine specification: RuleEngine.parse applied to the rules made of at  *)
(* most MaxOperands operands joined by operators, and to the clean-up      *)
(* rules of at most MaxCleanParts parts, on each source.                   *)
(***************************************************************************)
Hit == <<"h">>

Miss == <<"n">>

Blank == <<"w">>

HitCleaned == Hit \o CleanDelimiter \o <<"a">> \o CleanDelimiter \o <<"c">>

Operands == { <<>>, Hit, Miss, Blank, TEXT \o <<"c", SP>>, HitCleaned }

MoreOperands ==
    { <<"m">>, <<"e">>, <<"g", "@", "i">>, CSS \o <<"g">>, XPATH \o <<"g">>,
      TEXT, JSON \o <<"g">>, JSON \o <<"e">>, JSON \o <<"o">>, JSON \o <<"n">>, JSON,
      Hit \o CONTAINS \o <<"a", ")", "@", "i">>,
      Hit \o CONTAINS \o <<"c", ")">>,
      <<SP>> \o TEXT \o <<"c">>,
      TEXT \o <<DQ, "c", DQ>>,
      TEXT \o <<SP, "c", SP>>,
      TEXT \o <<"c", SP>> \o CleanDelimiter \o <<"c">> }

\* operands that stand alone in a rule, one for each prefix spelling
PrefixOperands ==
    { <<"@", "x", "p", "a", "t", "h", ":", "h">>, XPATH \o <<"h">>,
      REGEX \o <<"a">>, REGEX \o <<"c">>, JS \o <<DQ, "a", DQ>>, JS \o <<"h">>,
      <<SP>> \o CSS \o <<"h">>, CSS \o <<"h", "@", "t", "e", "x", "t">> }

\* x && (a || b)
Nested(x, a, b) ==
    x \o ConcatDelimiter \o <<"(">> \o a \o <<SP>> \o OrToken \o <<SP>> \o b \o <<")">>

NestedOuter == { Hit, TEXT \o <<"c">> }

NestedFirst == { Hit, Miss }

NestedSecond == { <<"g">>, TEXT \o <<"c">> }

NestedRules == {Nested(x, a, b) : x \in NestedOuter, a \in NestedFirst, b \in NestedSecond}

Operators == { ConcatDelimiter, OrToken, AndToken }

\* the rules of exactly n operands of S
RECURSIVE OperandRules(_, _)
OperandRules(S, n) ==
    IF n = 1 THEN S
    ELSE {r \o op \o a : r \in OperandRules(S, n - 1), op \in Operators, a \in S}

CleanSelectors == { Hit, Miss, TEXT \o <<"a", "b">> }

CleanParts == { <<>>, <<"a">>, <<"b">>, <<"c">>, <<"[">> }

\* selector##part##...##part with exactly n parts
RECURSIVE CleanRules(_)
CleanRules(n) ==
    IF n = 0 THEN CleanSelectors
    ELSE {r \o CleanDelimiter \o q : r \in CleanRules(n - 1), q \in CleanParts}

RuleInputs ==
    UNION {OperandRules(Operands, n) : n \in 1..MaxOperands}
        \cup OperandRules(Operands \cup MoreOperands, 1)
        \cup OperandRules(Operands \cup MoreOperands, 2)
        \cup PrefixOperands
        \cup NestedRules
        \cup UNION {CleanRules(n) : n \in 1..MaxCleanParts}

Init ==
    /\ pc = "parse"
    /\ rule \in RuleInputs
    /\ source \in Sources
    /\ options = DefaultOptions
    /\ selectors = <<>>
    /\ ret = NoOutcome
    /\ thrown = <<>>
    /\ calls = <<>>
    /\ executed = <<>>
    /\ raw = <<>>
    /\ segs = <<>>
    /\ CacheUnused
    /\ BatchUnused
    /\ FacadeUnused

\* the call returns `result`
Returns(result) ==
    /\ ~result.thrown
    /\ ret' = result.out
    /\ calls' = result.calls
    /\ executed' = result.executed

\* the call throws `result`
Throws(result) ==
    /\ result.thrown
    /\ thrown' = result.message
    /\ calls' = result.calls

ParseReturn ==
    /\ pc = "parse"
    /\ Returns(parse(source, rule, options))
    /\ pc' = "returned"
    /\ UNCHANGED <<rule, source, options, selectors, thrown, raw, segs>>
    /\ UNCHANGED cacheVars
    /\ UNCHANGED facadeVars
    /\ UNCHANGED batchVars

ParseThrow ==
    /\ pc = "parse"
    /\ Throws(parse(source, rule, options))
    /\ pc' = "thrown"
    /\ UNCHANGED <<rule, source, options, selectors, ret, executed, raw, segs>>
    /\ UNCHANGED cacheVars
    /\ UNCHANGED facadeVars
    /\ UNCHANGED batchVars

Next == ParseReturn \/ ParseThrow

Spec == Init /\ [][Next]_vars

(***************************************************************************)
(* Cache specification: BookSourceRuleEngine.parseRule called any number   *)
(* of times, with the cache enabled or not.  A call runs up to its await   *)
(* (the lookup), and after it (the store and the return); other calls and  *)
(* clock ticks may come in between.                                        *)
(***************************************************************************)
DocP == Doc("p", <<"a", "b">>)

\* a document that differs from DocP after its first 100 characters
DocP2 == Doc("p", <<"c">>)

ParseCall(r, doc) == [rule |-> r, doc |-> doc]

\* the calls made: three rules that succeed, one of them on both documents,
\* and one that fails
CacheCalls ==
    { ParseCall(<<"h">>, DocP), ParseCall(<<"h">>, DocP2), ParseCall(<<"g">>, DocP),
      ParseCall(<<"k">>, DocP), ParseCall(<<"n">>, DocP) }

InitCache ==
    /\ pc = "parseRule"
    /\ rule = <<>>
    /\ source = "none"
    /\ options = DefaultOptions
    /\ selectors = <<>>
    /\ ret = NoOutcome
    /\ thrown = <<>>
    /\ calls = <<>>
    /\ executed = <<>>
    /\ raw = <<>>
    /\ segs = <<>>
    /\ cache = <<>>
    /\ now = 0
    /\ enabled \in BOOLEAN
    /\ pending = <<>>
    /\ call = NoCall
    /\ fromCache = FALSE
    /\ evicted = <<>>
    /\ BatchUnused
    /\ FacadeUnused

engineUnchanged ==
    UNCHANGED <<rule, source, options, selectors, thrown, calls, executed, raw, segs,
                enabled, batch, batchRet, stack, descriptor, promises>>

\* the entry is there and young enough: it is returned, marked fromCache
CacheHit(r, doc) ==
    /\ enabled
    /\ cacheHas(cache, generateCacheKey(r, doc))
    /\ fresh(cacheGet(cache, generateCacheKey(r, doc)), now)
    /\ ret' = cacheGet(cache, generateCacheKey(r, doc)).result
    /\ fromCache' = TRUE
    /\ call' = ParseCall(r, doc)
    /\ pc' = "returned"
    /\ UNCHANGED <<cache, now, pending, evicted>>
    /\ engineUnchanged

\* the entry is there and too old: it is deleted and the rule is evaluated
CacheExpired(r, doc) ==
    /\ enabled
    /\ cacheHas(cache, generateCacheKey(r, doc))
    /\ ~fresh(cacheGet(cache, generateCacheKey(r, doc)), now)
    /\ Len(pending) < MaxPending
    /\ cache' = cacheDelete(cache, generateCacheKey(r, doc))
    /\ pending' = Append(pending, ParseCall(r, doc))
    /\ UNCHANGED <<pc, ret, fromCache, call, now, evicted>>
    /\ engineUnchanged

\* no entry, or no cache: the rule is evaluated
CacheMiss(r, doc) ==
    /\ ~(enabled /\ cacheHas(cache, generateCacheKey(r, doc)))
    /\ Len(pending) < MaxPending
    /\ pending' = Append(pending, ParseCall(r, doc))
    /\ UNCHANGED <<pc, ret, fromCache, call, now, cache, evicted>>
    /\ engineUnchanged

withoutIndex(seq, i) == SubSeq(seq, 1, i - 1) \o SubSeq(seq, i + 1, Len(seq))

cacheableAlways(parseResult) == enabled

\* this.options.cache.enabled && parseResult.success
cacheable(parseResult) == enabled /\ parseResult.success

\* after the await: a successful result is cached, the result is returned
finish(p, parseResult) ==
    /\ cache' = IF cacheable(parseResult)
                THEN cacheResult(cache, generateCacheKey(p.rule, p.doc), parseResult, now)
                ELSE cache
    /\ evicted' = IF cacheable(parseResult)
                  THEN deletedKeys(cache, evictFirst(cache))
                  ELSE <<>>
    /\ ret' = parseResult
    /\ fromCache' = FALSE
    /\ call' = p
    /\ pc' = "returned"

CacheFinish(i) ==
    /\ i \in 1..Len(pending)
    /\ finish(pending[i], executeRule(pending[i].rule, pending[i].doc))
    /\ pending' = withoutIndex(pending, i)
    /\ UNCHANGED now
    /\ engineUnchanged

Tick ==
    /\ now < MaxTime
    /\ now' = now + 1
    /\ UNCHANGED <<pc, ret, fromCache, call, cache, pending, evicted>>
    /\ engineUnchanged

NextCache ==
    \/ \E c \in CacheCalls : CacheHit(c.rule, c.doc)
    \/ \E c \in CacheCalls : CacheExpired(c.rule, c.doc)
    \/ \E c \in CacheCalls : CacheMiss(c.rule, c.doc)
    \/ \E i \in 1..MaxPending : CacheFinish(i)
    \/ Tick

SpecCache == InitCache /\ [][NextCache]_vars

(***************************************************************************)
(* Fallback tokenizer specification: parseFallbackRule applied to every    *)
(* rule string made of at most MaxFallbackLen pieces of FallbackPieces.    *)
(***************************************************************************)
FallbackPieces == {<<"a">>, <<SP>>, <<"|">>, <<DQ>>, <<SQ>>, <<BS>>}

InitFallbackTok ==
    /\ pc = "parseFallbackRule"
    /\ rule \in PiecesUpTo(FallbackPieces, MaxFallbackLen)
    /\ source = "none"
    /\ options = DefaultOptions
    /\ selectors = <<>>
    /\ ret = NoOutcome
    /\ thrown = <<>>
    /\ calls = <<>>
    /\ executed = <<>>
    /\ raw = <<>>
    /\ segs = <<>>
    /\ CacheUnused
    /\ BatchUnused
    /\ FacadeUnused

FallbackTokReturn ==
    /\ pc = "parseFallbackRule"
    /\ segs' = parseFallbackRule(rule)
    /\ pc' = "returned"
    /\ UNCHANGED <<rule, source, options, selectors, ret, thrown, calls, executed, raw>>
    /\ UNCHANGED cacheVars
    /\ UNCHANGED facadeVars
    /\ UNCHANGED batchVars

NextFallbackTok == FallbackTokReturn

SpecFallbackTok == InitFallbackTok /\ [][NextFallbackTok]_vars

(***************************************************************************)
(* Batch specification: RuleEngine.parseBatch applied to every rules       *)
(* object of at most MaxBatch named rules, on each source.                 *)
(***************************************************************************)
BatchNames == { "title", "author", ProtoKey }

BatchRules == { Hit, Miss, <<>>, JSON \o <<"g">>, TEXT \o <<"c">> }

\* the entries of the rules objects of exactly n properties
RECURSIVE BatchEntries(_)
BatchEntries(n) ==
    IF n = 0 THEN { <<>> }
    ELSE {Append(entries, Property(key, r)) :
            entries \in BatchEntries(n - 1), key \in BatchNames, r \in BatchRules}

distinctKeys(entries) ==
    \A i \in 1..Len(entries), j \in 1..Len(entries) :
        entries[i].key = entries[j].key => i = j

BatchInputs ==
    {entries \in UNION {BatchEntries(n) : n \in 0..MaxBatch} : distinctKeys(entries)}

InitBatch ==
    /\ pc = "parseBatch"
    /\ batch \in BatchInputs
    /\ source \in Sources
    /\ options = DefaultOptions
    /\ rule = <<>>
    /\ selectors = <<>>
    /\ ret = NoOutcome
    /\ thrown = <<>>
    /\ calls = <<>>
    /\ executed = <<>>
    /\ raw = <<>>
    /\ segs = <<>>
    /\ CacheUnused
    /\ FacadeUnused
    /\ batchRet = NoBatchReturn

ParseBatch ==
    /\ pc = "parseBatch"
    /\ batchRet' = parseBatch(source, batch, options)
    /\ pc' = "returned"
    /\ UNCHANGED <<rule, source, options, selectors, ret, thrown, calls, executed, raw,
                   segs, batch>>
    /\ UNCHANGED cacheVars
    /\ UNCHANGED facadeVars

NextBatch == ParseBatch

SpecBatch == InitBatch /\ [][NextBatch]_vars

(***************************************************************************)
(* BookSourceRuleEngine._parseSelector (types.js): the prefix gives the    *)
(* selector type, a bracket suffix gives options.index.                    *)
(***************************************************************************)
Digits == <<"0", "1", "2", "3", "4", "5", "6", "7", "8", "9">>

isDigit(c) == \E d \in 1..Len(Digits) : Digits[d] = c

digitValue(c) == (CHOOSE d \in 1..Len(Digits) : Digits[d] = c) - 1

Num(n) == [t |-> "num", n |-> n, s |-> <<>>]

Text(s) == [t |-> "str", n |-> 0, s |-> s]

\* the digits at the head of s, as parseInt reads them
RECURSIVE leadingDigits(_)
leadingDigits(s) ==
    IF s # <<>> /\ isDigit(Head(s)) THEN <<Head(s)>> \o leadingDigits(Tail(s)) ELSE <<>>

RECURSIVE decimal(_)
decimal(ds) ==
    IF ds = <<>> THEN 0 ELSE 10 * decimal(SubSeq(ds, 1, Len(ds) - 1)) + digitValue(ds[Len(ds)])

\* parseInt(s, 10): an optional sign, then the longest run of digits; the
\* rest of s is ignored, no digit at all gives NaN
parseInt(s) ==
    LET t == trimStart(s)
        signed == t # <<>> /\ Head(t) \in {"-", "+"}
        ds == leadingDigits(IF signed THEN Tail(t) ELSE t)
    IN [nan |-> ds = <<>>,
        n |-> IF signed /\ Head(t) = "-" THEN 0 - decimal(ds) ELSE decimal(ds)]

parseIndexValue(value) ==
    LET trimmed == trim(value) IN
    IF trimmed = <<>> THEN Num(0)
    ELSE LET num == parseInt(trimmed) IN
         IF num.nan THEN Text(trimmed) ELSE Num(num.n)

parseIndexExpression(indexExpr) ==
    IF includes(indexExpr, <<":">>)
    THEN LET parts == split(indexExpr, <<":">>) IN
         [type |-> "range",
          values |-> <<parseIndexValue(parts[1]), parseIndexValue(parts[2])>>]
    ELSE IF includes(indexExpr, <<",">>)
    THEN LET parts == split(indexExpr, <<",">>) IN
         [type |-> "multi",
          values |-> [i \in 1..Len(parts) |-> parseIndexValue(trim(parts[i]))]]
    ELSE [type |-> "single", values |-> <<parseIndexValue(indexExpr)>>]

\* expression.match(/^(.+)\[(.+)\](.*)$/): both groups are greedy, so the
\* bracket is the last [ with a ] two or more characters after it, and it
\* closes at the last ] of the expression
indexMatch(expression) ==
    LET opens == {p \in 2..Len(expression) :
                     /\ expression[p] = "["
                     /\ \E q \in (p + 2)..Len(expression) : expression[q] = "]"}
    IN IF opens = {} THEN [matched |-> FALSE, base |-> <<>>, index |-> <<>>, after |-> <<>>]
       ELSE LET p == CHOOSE x \in opens : \A y \in opens : y <= x
                closes == {q \in (p + 2)..Len(expression) : expression[q] = "]"}
                q == CHOOSE x \in closes : \A y \in closes : y <= x
            IN [matched |-> TRUE,
                base |-> SubSeq(expression, 1, p - 1),
                index |-> SubSeq(expression, p + 1, q - 1),
                after |-> SubSeq(expression, q + 1, Len(expression))]

defaultSelector == "css"

\* the prefix check of _parseSelector
selectorPrefix(r) ==
    IF startsWith(r, CSS) THEN [selectorType |-> "css", length |-> 5]
    ELSE IF startsWith(r, XPATH) THEN [selectorType |-> "xpath", length |-> 7]
    ELSE IF startsWith(r, JSON) THEN [selectorType |-> "json", length |-> 6]
    ELSE IF startsWith(r, REGEX) THEN [selectorType |-> "regex", length |-> 7]
    ELSE IF startsWith(r, JS) THEN [selectorType |-> "js", length |-> 4]
    ELSE [selectorType |-> defaultSelector, length |-> 0]

withoutPrefix(r) == SubSeq(r, selectorPrefix(r).length + 1, Len(r))

parseSelector(r) ==
    LET indexed == indexMatch(withoutPrefix(r)) IN
    IF indexed.matched
    THEN [selectorType |-> selectorPrefix(r).selectorType,
          expression |-> indexed.base \o indexed.after,
          index |-> parseIndexExpression(indexed.index)]
    ELSE [selectorType |-> selectorPrefix(r).selectorType,
          expression |-> withoutPrefix(r),
          index |-> NoIndex]

(***************************************************************************)
(* Selector specification: _parseSelector applied to every rule made of a  *)
(* prefix and at most MaxSelectorLen pieces.                               *)
(***************************************************************************)
SelectorPieces == {"d", "[", "]", "1", "x", ":", ","}

SelectorPrefixes == {<<>>, CSS, JSON}

SelectorInputs ==
    {p \o body : p \in SelectorPrefixes, body \in ListsUpTo(SelectorPieces, MaxSelectorLen)}

InitSelector ==
    /\ pc = "_parseSelector"
    /\ rule \in SelectorInputs
    /\ source = "none"
    /\ options = DefaultOptions
    /\ selectors = <<>>
    /\ ret = NoOutcome
    /\ thrown = <<>>
    /\ calls = <<>>
    /\ executed = <<>>
    /\ raw = <<>>
    /\ segs = <<>>
    /\ CacheUnused
    /\ BatchUnused
    /\ FacadeUnused

ParseSelector ==
    /\ pc = "_parseSelector"
    /\ descriptor' = parseSelector(rule)
    /\ pc' = "returned"
    /\ UNCHANGED <<rule, source, options, selectors, ret, thrown, calls, executed, raw,
                   segs, stack, promises>>
    /\ UNCHANGED cacheVars
    /\ UNCHANGED batchVars

NextSelector == ParseSelector

SpecSelector == InitSelector /\ [][NextSelector]_vars

(***************************************************************************)
(* BookSourceRuleEngine.parseRule on operator rules (types.js).  The       *)
(* execute function of a sub-rule is async: calling it returns a promise,  *)
(* which settles in a later microtask.  The sub-rules of the model are css *)
(* and json selectors without an index suffix.                             *)
(***************************************************************************)
\* _handleSingleSelector: what its promise settles with
executeSelector(src, d) ==
    CASE d.selectorType = "css" /\ d.index = NoIndex ->
             IF includes(d.expression, CONTAINS)
             THEN cssContainsSelector(src, d.expression)
             ELSE cssSelector(src, d.expression)
      [] d.selectorType = "json" /\ d.index = NoIndex ->
             jsonSelector(src, d.expression)

handleSingleSelector(src, r) == executeSelector(src, parseSelector(r))

\* the promise an execute function returns
Promise(r, settled) == [rule |-> r, state |-> "pending", settled |-> settled]

\* what synchronous code reads from a promise: its success and data
\* properties are undefined, and calling execute threw nothing
asResult(promise) == Returned(Outcome(FALSE, Null, "promise"), promise.settled.calls, <<>>)

executeAll(src, rules) ==
    [i \in 1..Len(rules) |-> Promise(rules[i], handleSingleSelector(src, rules[i]))]

\* the results the operator collects from the promises
asResults(promised) == [i \in 1..Len(promised) |-> asResult(promised[i])]

\* the promises the operators have created when they return: fallbackOperator
\* executes every selector and then the last one once more
createdByFallback(promised) ==
    IF Len(promised) = 0 THEN promised ELSE Append(promised, promised[Len(promised)])

handleFallbackRule(src, r) ==
    fallbackOperator(asResults(executeAll(src, parseFallbackRule(r))))

concatSelectors(src, parsed, opts) ==
    IF parsed.thrown THEN Thrown(parsed.error, <<>>, <<>>)
    ELSE concatOperator(asResults(executeAll(src, parsed.rules)),
                        opts.separator, opts.ignoreEmpty)

handleConcatRule(src, r, opts) == concatSelectors(src, parseConcatRule(r), opts)

\* _executeRule on the trimmed rule, for the rules without a ## part
dispatch(src, cleanRule, opts) ==
    IF includes(cleanRule, OrToken) THEN handleFallbackRule(src, cleanRule)
    ELSE IF includes(cleanRule, AndToken) THEN handleConcatRule(src, cleanRule, opts)
    ELSE handleSingleSelector(src, cleanRule)

BookSourceRuleEngine_executeRule(src, r, opts) == dispatch(src, trim(r), opts)

createdByConcat(src, parsed) ==
    IF parsed.thrown THEN <<>> ELSE executeAll(src, parsed.rules)

\* the promises of the sub-rules that _executeRule leaves behind
createdByRule(src, cleanRule) ==
    IF includes(cleanRule, OrToken)
    THEN createdByFallback(executeAll(src, parseFallbackRule(cleanRule)))
    ELSE IF includes(cleanRule, AndToken)
    THEN createdByConcat(src, parseConcatRule(cleanRule))
    ELSE <<>>

createdBy(src, r) == createdByRule(src, trim(r))

\* the catch block of parseRule: an error becomes a failed outcome
caught(parseResult) ==
    IF parseResult.thrown
    THEN [Outcome(FALSE, Null, "unknown") EXCEPT
             !.error = [kind |-> "message", entries |-> <<>>,
                        message |-> parseResult.message]]
    ELSE parseResult.out

BookSourceRuleEngine_parseRule(src, r, opts) ==
    IF r = <<>> THEN caught(Thrown(EmptyRuleError, <<>>, <<>>))
    ELSE caught(BookSourceRuleEngine_executeRule(src, r, opts))

(***************************************************************************)
(* Facade specification: parseRule applied to a sub-rule, to `A || B` and  *)
(* to `A && B`, the promises of the sub-rules settling in any order.       *)
(***************************************************************************)
FacadeOperands == { Hit, Miss, <<"g">>, CSS \o Hit, JSON \o <<"g">>, JSON \o <<"n">> }

FacadeRules ==
    FacadeOperands
        \cup {a \o <<SP>> \o OrToken \o <<SP>> \o b : a, b \in FacadeOperands}
        \cup {a \o ConcatDelimiter \o b : a, b \in FacadeOperands}

InitFacade ==
    /\ pc = "parseRule"
    /\ rule \in FacadeRules
    /\ source \in Sources
    /\ options = DefaultOptions
    /\ selectors = <<>>
    /\ ret = NoOutcome
    /\ thrown = <<>>
    /\ calls = <<>>
    /\ executed = <<>>
    /\ raw = <<>>
    /\ segs = <<>>
    /\ CacheUnused
    /\ BatchUnused
    /\ FacadeUnused

facadeUnchanged ==
    UNCHANGED <<rule, source, options, selectors, thrown, calls, executed, raw, segs,
                stack, descriptor, cacheVars, batchVars>>

\* parseRule up to its await: _executeRule has run the operator
FacadeCall ==
    /\ pc = "parseRule"
    /\ promises' = createdBy(source, rule)
    /\ ret' = BookSourceRuleEngine_parseRule(source, rule, options)
    /\ pc' = "awaiting"
    /\ facadeUnchanged

\* a microtask settles the promise of a sub-rule
Settle(i) ==
    /\ pc \in {"awaiting", "returned"}
    /\ i \in 1..Len(promises)
    /\ promises[i].state = "pending"
    /\ promises' = [promises EXCEPT ![i].state =
                       IF promises[i].settled.thrown THEN "rejected" ELSE "fulfilled"]
    /\ UNCHANGED <<pc, ret>>
    /\ facadeUnchanged

\* the await of parseRule resumes and parseRule returns the outcome
FacadeReturn ==
    /\ pc = "awaiting"
    /\ pc' = "returned"
    /\ UNCHANGED <<ret, promises>>
    /\ facadeUnchanged

NextFacade == FacadeCall \/ (\E i \in 1..Len(promises) : Settle(i)) \/ FacadeReturn

SpecFacade == InitFacade /\ [][NextFacade]_vars

(***************************************************************************)
(* The recursion of RuleEngine.parseRule, one call at a time.  A frame is  *)
(* a parseRule call on an operator rule: its segments and what the         *)
(* sub-rules executed so far produced.  options.maxDepth is read nowhere;  *)
(* the nesting ends when the call stack of the runtime is exhausted, which *)
(* throws a RangeError inside the call that did not fit.                   *)
(***************************************************************************)
maxDepth == 10

StackOverflow == <<"Maximum call stack size exceeded">>

\* parseRule on r returns without calling parseRule again
isLeaf(r) ==
    /\ ~includes(r, OrToken)
    /\ ~includes(r, AndToken) \/ parseConcatRule(r).thrown

Frame(r) ==
    [rule |-> r,
     op |-> IF includes(r, OrToken) THEN "fallback" ELSE "concat",
     rules |-> IF includes(r, OrToken) THEN parseFallbackRule(r) ELSE parseConcatRule(r).rules,
     results |-> <<>>]

\* fallbackOperator has found a valid result, or has executed the last
\* selector once more after the loop; concatOperator has executed them all
isComplete(frame) ==
    LET n == Len(frame.results) IN
    IF frame.op = "fallback"
    THEN \/ n >= 1 /\ n <= Len(frame.rules) /\ isValidResult(frame.results[n])
         \/ n = Len(frame.rules) + 1
    ELSE n = Len(frame.rules)

\* the sub-rule the operator executes next
nextRule(frame) ==
    LET n == Len(frame.results) IN
    IF n < Len(frame.rules) THEN frame.rules[n + 1] ELSE frame.rules[Len(frame.rules)]

\* what the operator of a complete frame returns
frameResult(frame, opts) ==
    IF frame.op = "fallback"
    THEN fallbackOperator(SubSeq(frame.results, 1,
                                 IF Len(frame.results) > Len(frame.rules)
                                 THEN Len(frame.rules) ELSE Len(frame.results)))
    ELSE concatOperator(frame.results, opts.separator, opts.ignoreEmpty)

\* the result of an execute call arrives in the operator that made it
deliver(frames, result) ==
    [frames EXCEPT ![Len(frames)].results = Append(@, result)]

(***************************************************************************)
(* Nesting specification: RuleEngine.parse on rules with operators inside  *)
(* and outside quoted literals, with MaxStack calls fitting on the stack.  *)
(***************************************************************************)
QuotedOr == TEXT \o <<DQ, "|", "|", DQ>>

QuotedAnd == TEXT \o <<DQ, AMP, AMP, DQ>>

NestingRules ==
    { Hit, QuotedOr, QuotedAnd,
      Hit \o OrToken \o Miss,
      Miss \o OrToken \o Hit,
      Miss \o OrToken \o Miss,
      Hit \o ConcatDelimiter \o Miss,
      Miss \o OrToken \o Hit \o ConcatDelimiter \o Hit,
      Miss \o OrToken \o QuotedAnd,
      Hit \o ConcatDelimiter \o QuotedAnd,
      <<SP>> \o QuotedOr }

InitNesting ==
    /\ pc = "parse"
    /\ rule \in NestingRules
    /\ source \in Sources
    /\ options = DefaultOptions
    /\ selectors = <<>>
    /\ ret = NoOutcome
    /\ thrown = <<>>
    /\ calls = <<>>
    /\ executed = <<>>
    /\ raw = <<>>
    /\ segs = <<>>
    /\ CacheUnused
    /\ BatchUnused
    /\ FacadeUnused

nestingUnchanged ==
    UNCHANGED <<rule, source, options, selectors, raw, segs, descriptor, promises,
                cacheVars, batchVars>>

\* parse has its result: an outcome, or an error wrapped by its catch block
finishParse(result) ==
    LET final == rethrow(result) IN
    /\ pc' = IF final.thrown THEN "thrown" ELSE "returned"
    /\ ret' = final.out
    /\ thrown' = final.message
    /\ calls' = final.calls
    /\ executed' = final.executed

\* parse calls parseRule on a rule without an operator
ParseLeaf ==
    /\ pc = "parse"
    /\ isLeaf(rule)
    /\ finishParse(parseRule(source, rule, options))
    /\ UNCHANGED stack
    /\ nestingUnchanged

\* parse calls parseRule on an operator rule
Enter ==
    /\ pc = "parse"
    /\ ~isLeaf(rule)
    /\ stack' = <<Frame(rule)>>
    /\ pc' = "parseRule"
    /\ UNCHANGED <<ret, thrown, calls, executed>>
    /\ nestingUnchanged

\* the operator executes a sub-rule without an operator
ExecuteLeaf ==
    /\ pc = "parseRule"
    /\ ~isComplete(stack[Len(stack)])
    /\ isLeaf(nextRule(stack[Len(stack)]))
    /\ stack' = deliver(stack, parseRule(source, nextRule(stack[Len(stack)]), options))
    /\ UNCHANGED <<pc, ret, thrown, calls, executed>>
    /\ nestingUnchanged

\* the operator executes a sub-rule with an operator: parseRule is entered
Descend ==
    /\ pc = "parseRule"
    /\ ~isComplete(stack[Len(stack)])
    /\ ~isLeaf(nextRule(stack[Len(stack)]))
    /\ Len(stack) < MaxStack
    /\ stack' = Append(stack, Frame(nextRule(stack[Len(stack)])))
    /\ UNCHANGED <<pc, ret, thrown, calls, executed>>
    /\ nestingUnchanged

\* the call does not fit on the stack: the RangeError is caught by the
\* try block of the operator that executed the sub-rule
Overflow ==
    /\ pc = "parseRule"
    /\ ~isComplete(stack[Len(stack)])
    /\ ~isLeaf(nextRule(stack[Len(stack)]))
    /\ Len(stack) = MaxStack
    /\ stack' = deliver(stack, Thrown(StackOverflow, <<>>, <<>>))
    /\ UNCHANGED <<pc, ret, thrown, calls, executed>>
    /\ nestingUnchanged

\* the operator of an inner call returns to the operator that executed it
Return ==
    /\ pc = "parseRule"
    /\ Len(stack) > 1
    /\ isComplete(stack[Len(stack)])
    /\ stack' = deliver(SubSeq(stack, 1, Len(stack) - 1),
                        frameResult(stack[Len(stack)], options))
    /\ UNCHANGED <<pc, ret, thrown, calls, executed>>
    /\ nestingUnchanged

\* the operator of the outermost call returns to parse
ParseReturns ==
    /\ pc = "parseRule"
    /\ Len(stack) = 1
    /\ isComplete(stack[1])
    /\ finishParse(frameResult(stack[1], options))
    /\ stack' = <<>>
    /\ nestingUnchanged

NextNesting ==
    ParseLeaf \/ Enter \/ ExecuteLeaf \/ Descend \/ Overflow \/ Return \/ ParseReturns

SpecNesting == InitNesting /\ [][NextNesting]_vars

(***************************************************************************)
(* Spacing legality of && stated on the rule text.  TokPieces has one      *)
(* quote character and no backslash, so a position lies inside a string    *)
(* literal iff an odd number of quotes precede it and a quote follows it.  *)
(***************************************************************************)
QuotesBefore(s, i) == Cardinality({j \in 1..(i - 1) : s[j] = DQ})

InLiteral(s, i) ==
    /\ QuotesBefore(s, i) % 2 = 1
    /\ \E k \in (i + 1)..Len(s) : s[k] = DQ

BareAnd(s, i) == matchAt(s, i, AndToken) /\ ~InLiteral(s, i)

NoSpaceLeft(s, i) == i = 1 \/ s[i - 1] # SP

NoSpaceRight(s, i) == i + 2 > Len(s) \/ s[i + 2] # SP

TwoSpacesLeft(s, i) == i > 2 /\ s[i - 1] = SP /\ s[i - 2] = SP

TwoSpacesRight(s, i) == i + 3 <= Len(s) /\ s[i + 2] = SP /\ s[i + 3] = SP

IllegalAnd(s) ==
    \E i \in 1..Len(s) :
        /\ BareAnd(s, i)
        /\ \/ NoSpaceLeft(s, i)
           \/ NoSpaceRight(s, i)
           \/ TwoSpacesLeft(s, i) /\ TwoSpacesRight(s, i)

\* C5: parseConcatRule throws the spacing SyntaxError exactly for the rules
\* with a bare && that has no space on one side or two or more on both; every
\* other rule is cut at the canonical " && " only (the slices joined by " && "
\* give the rule back, so surplus spaces stay in the adjacent slice), and a
\* returned segment is its slice trimmed, an @text: slice keeping its
\* trailing spaces.
C5_SpacingLegality ==
    pc \in {"returned", "thrown"} =>
        /\ IllegalAnd(rule) => pc = "thrown" /\ thrown = SpacingError
        /\ ~IllegalAnd(rule) =>
              /\ thrown # SpacingError
              /\ join(raw, ConcatDelimiter) = rule
        /\ pc = "returned" =>
              /\ Len(segs) = Len(raw)
              /\ \A i \in 1..Len(segs) :
                    /\ trim(segs[i]) = trim(raw[i])
                    /\ startsWith(segs[i], TEXT) => segs[i] = trimStart(raw[i])
                    /\ ~startsWith(segs[i], TEXT) => segs[i] = trim(raw[i])

\* `@text:  && a`: two spaces left, one right, accepted, the surplus space kept
C5_Witness ==
    /\ pc = "returned"
    /\ rule = TEXT \o <<SP, SP, AMP, AMP, SP, "a">>
    /\ segs = << TEXT \o <<SP>>, <<"a">> >>

(***************************************************************************)
(* Properties of the operators (SpecOps).                                  *)
(***************************************************************************)
EmptyValues == {Null, Str(<<>>), Arr(<<>>), Obj(<<>>)}

\* selector k (1-based) returns success with a non-empty value
Succeeds(k) ==
    /\ ~selectors[k].thrown
    /\ selectors[k].out.success
    /\ selectors[k].out.data \notin EmptyValues

FallbackReturned == pc = "returned" /\ ret.selector = "fallback"

ConcatReturned == pc = "returned" /\ ret.selector = "concat"

UpTo(n) == [k \in 1..n |-> k - 1]

\* C1: when sub-rule i is the first to succeed with a non-empty value,
\* fallbackOperator returns success with that value and fallbackIndex i, and
\* the sub-rules executed are exactly 0..i, none after i.
C1_FallbackShortCircuit ==
    FallbackReturned =>
        \A k \in 1..Len(selectors) :
            (Succeeds(k) /\ \A j \in 1..(k - 1) : ~Succeeds(j)) =>
                /\ ret.success
                /\ ret.data = selectors[k].out.data
                /\ ret.fallbackIndex = k - 1
                /\ executed = UpTo(k)

\* the second of three sub-rules succeeds and the third is never executed
C1_Witness ==
    /\ FallbackReturned
    /\ Len(selectors) = 3
    /\ ~Succeeds(1) /\ Succeeds(2) /\ Succeeds(3)
    /\ executed = <<0, 1>>
    /\ ret.fallbackIndex = 1

AllFail == \A k \in 1..Len(selectors) : ~Succeeds(k)

LastSelector == selectors[Len(selectors)]

EntryIndices == {ret.error.entries[k].index : k \in 1..Len(ret.error.entries)}

\* C2 as stated: when every sub-rule fails the outcome has success=false, the
\* data of the last sub-rule's outcome (null when it threw) and an error with
\* one entry for every sub-rule index.
C2_AsStated ==
    (FallbackReturned /\ AllFail) =>
        /\ ~ret.success
        /\ ret.data = (IF LastSelector.thrown THEN Null ELSE LastSelector.out.data)
        /\ EntryIndices = 0..(Len(selectors) - 1)

\* C2 amended: when every sub-rule fails the outcome has success=false; if
\* the last sub-rule does not throw, the data is its outcome's data, an empty
\* string replaced by null, and the error has one entry for every sub-rule
\* index; if the last sub-rule throws, the data is null and the error carries
\* only that sub-rule's message, with no per-index entries.
C2_FallbackAllFail ==
    (FallbackReturned /\ AllFail) =>
        /\ ~ret.success
        /\ ~LastSelector.thrown =>
              /\ ret.data = (IF LastSelector.out.data = Str(<<>>)
                             THEN Null ELSE LastSelector.out.data)
              /\ EntryIndices = 0..(Len(selectors) - 1)
              /\ Len(ret.error.entries) = Len(selectors)
              /\ ret.error.kind = "allFailed"
        /\ LastSelector.thrown =>
              /\ ret.data = Null
              /\ ret.error.kind = "finalFailed"
              /\ ret.error.message = LastSelector.message
              /\ ret.error.entries = <<>>

\* all three sub-rules fail and the last one returns an empty string
C2_Witness ==
    /\ FallbackReturned
    /\ Len(selectors) = 3
    /\ AllFail
    /\ selectors[1].thrown
    /\ ~selectors[3].thrown /\ selectors[3].out.data = Str(<<>>)
    /\ ret.data = Null
    /\ Len(ret.error.entries) = 3

\* the string a contributing sub-rule adds: a text selector's value as it
\* is, any other value trimmed; v[1] is the string itself, or the first
\* element of an array
Stringified(out) ==
    IF out.selector = "text" THEN out.data.v[1] ELSE trim(out.data.v[1])

RECURSIVE Contributions(_, _)
Contributions(k, sep) ==
    IF k > Len(selectors) THEN <<>>
    ELSE IF ~Succeeds(k) THEN Contributions(k + 1, sep)
    ELSE LET rest == Contributions(k + 1, sep)
             more == \E j \in (k + 1)..Len(selectors) : Succeeds(j)
         IN Stringified(selectors[k].out) \o (IF more THEN sep ELSE <<>>) \o rest

\* C4 as stated: with the default options, `A && B` with A failing and B
\* succeeding yields exactly stringify(B) with success=true.
C4_AsStated ==
    (ConcatReturned /\ options = DefaultOptions /\ Len(selectors) = 2
        /\ ~Succeeds(1) /\ Succeeds(2)) =>
        /\ ret.data = Str(Stringified(selectors[2].out))
        /\ ret.success

\* C4 amended: with ignoreEmpty=true a sub-rule that returns success=false,
\* returns empty data or throws contributes nothing to the joined string, so
\* `A && B` with A failing and B succeeding yields exactly stringify(B);
\* success is true exactly when the joined string is non-empty.
C4_ConcatEmptyTolerant ==
    (ConcatReturned /\ options.ignoreEmpty) =>
        /\ ret.data = Str(Contributions(1, options.separator))
        /\ ret.success = (Contributions(1, options.separator) # <<>>)
        /\ ret.processedCount = Cardinality({k \in 1..Len(selectors) : Succeeds(k)})

\* A throws, B succeeds, the default options: the result is B's string alone
C4_Witness ==
    /\ ConcatReturned
    /\ options = DefaultOptions
    /\ Len(selectors) = 2
    /\ selectors[1].thrown /\ Succeeds(2)
    /\ ret.data = Str(<<"a", "b">>)
    /\ ret.success

(***************************************************************************)
(* Properties of RuleEngine.parse (Spec).                                  *)
(***************************************************************************)
Done == pc \in {"returned", "thrown"}

\* a sub-rule as it stands between operators: not empty, no operator in it,
\* no leading space
Atom(a) ==
    /\ a # <<>>
    /\ a = trimStart(a)
    /\ ~includes(a, AndToken)
    /\ ~includes(a, OrToken)

\* what the sub-rule evaluates to on its own
Alone(a) == parse(source, a, options)

Valid(result) ==
    /\ ~result.thrown
    /\ result.out.success
    /\ result.out.data \notin EmptyValues

\* the rule cut at every " && "
ConcatAtoms == split(rule, ConcatDelimiter)

IsConcatRule ==
    /\ ~includes(rule, OrToken)
    /\ Len(ConcatAtoms) >= 2
    /\ \A k \in 1..Len(ConcatAtoms) : Atom(ConcatAtoms[k])

RECURSIVE StringifiedFrom(_, _)
StringifiedFrom(atoms, k) ==
    IF k > Len(atoms) THEN <<>>
    ELSE LET result == Alone(atoms[k])
         IN (IF Valid(result) THEN Stringified(result.out) ELSE <<>>)
                \o StringifiedFrom(atoms, k + 1)

\* C3 as stated: on `A && B && ...` with the default options, when every
\* sub-rule succeeds with a non-empty value the result has success=true and
\* data equal to the stringified values in rule order, nothing in between.
C3_AsStated ==
    (Done /\ IsConcatRule /\ \A k \in 1..Len(ConcatAtoms) : Valid(Alone(ConcatAtoms[k]))) =>
        /\ pc = "returned"
        /\ ret.success
        /\ ret.data = Str(StringifiedFrom(ConcatAtoms, 1))

\* C3 amended: on `A && B && ...` with the default options, when every
\* sub-rule succeeds with a non-empty value the data is exactly the
\* stringified values in rule order with nothing inserted between them, and
\* success is true exactly when that string is non-empty (values that are
\* only whitespace stringify to nothing).
C3_ConcatValue ==
    (Done /\ IsConcatRule /\ \A k \in 1..Len(ConcatAtoms) : Valid(Alone(ConcatAtoms[k]))) =>
        /\ pc = "returned"
        /\ ret.selector = "concat"
        /\ ret.data = Str(StringifiedFrom(ConcatAtoms, 1))
        /\ ret.success = (StringifiedFrom(ConcatAtoms, 1) # <<>>)
        /\ ret.processedCount = Len(ConcatAtoms)

\* a literal text with a trailing space, then an element's text
C3_Witness ==
    /\ pc = "returned"
    /\ source = "html"
    /\ rule = TEXT \o <<"c", SP>> \o ConcatDelimiter \o Hit
    /\ ret.data = Str(<<"c", SP, "a", "b">>)
    /\ ret.success

\* the outcome of `left || right`, the branches being the trimmed texts on
\* either side: right is evaluated only when left is not valid, and once
\* more when neither is
OrOutcome(left, right) ==
    IF Valid(left)
    THEN /\ ret.success /\ ret.data = left.out.data
         /\ ret.fallbackIndex = 0 /\ executed = <<0>>
    ELSE IF Valid(right)
    THEN /\ ret.success /\ ret.data = right.out.data
         /\ ret.fallbackIndex = 1 /\ executed = <<0, 1>>
    ELSE /\ ~ret.success /\ executed = <<0, 1, 1>>

OperandAtoms == {a \in Operands : Atom(a)}

CleanPieces == split(rule, CleanDelimiter)

IsCleanChain ==
    /\ ~includes(rule, OrToken)
    /\ ~includes(rule, AndToken)
    /\ Len(CleanPieces) = 5
    /\ CleanPieces[2] # <<>>
    /\ CleanPieces[4] # <<>>
    /\ Valid(Alone(CleanPieces[1]))

\* C7: on `X##p1##r1##p2##r2` the result is X's value with p1 replaced by
\* r1 and then, in that intermediate text, p2 replaced by r2.
C7_CleanupSequential ==
    (Done /\ IsCleanChain) =>
        /\ pc = "returned"
        /\ ret.data = Str(replaceAll(replaceAll(Alone(CleanPieces[1]).out.data.v[1],
                                                CleanPieces[2], CleanPieces[3]),
                                     CleanPieces[4], CleanPieces[5]))

SelectorPart == CleanPieces[1]

OneSelector == ~includes(rule, OrToken) /\ ~includes(rule, AndToken)
                   /\ ~includes(rule, CleanDelimiter)

\* a selector that matches nothing in the source
MatchesNothing ==
    \/ rule = Miss
    \/ rule = JSON \o Miss /\ source = "json"
    \/ rule = Hit /\ source = "json"

\* a source the selector cannot process
Unprocessable == startsWith(rule, JSON) /\ Len(rule) > Len(JSON) /\ source = "html"

EmptySegment ==
    /\ Len(ConcatAtoms) >= 2
    /\ \E k \in 1..Len(ConcatAtoms) : trim(ConcatAtoms[k]) = <<>>

\* C10: for every rule with an illegally spaced bare `&&` or an empty
\* concatenation segment, wherever it occurs, also inside one branch of a
\* `||`, RuleEngine.parse throws.
C10_GrammarErrorsThrow ==
    (Done /\ (IllegalAnd(rule) \/ EmptySegment)) => pc = "thrown"

(***************************************************************************)
(* Error isolation in the operators (SpecOps).                             *)
(***************************************************************************)
ThrownAt(k) == selectors[k].thrown

\* the error list holds an entry for index k - 1 with the thrown message
RecordedIn(entries, k) ==
    \E e \in 1..Len(entries) :
        /\ entries[e].index = k - 1
        /\ entries[e].error = selectors[k].message

FirstValid(k) == Succeeds(k) /\ \A j \in 1..(k - 1) : ~Succeeds(j)

Uncached(c) == executeRule(c.rule, c.doc)

\* C12: the data each parseRule call returns with the cache enabled is the
\* data the same call returns with the cache disabled.
C12_CacheTransparency ==
    pc = "returned" =>
        /\ ret.data = Uncached(call).data
        /\ ret.success = Uncached(call).success

KeyOf(c) == c.rule \o <<"|", c.doc.head, "|", "{}">>

KeysOf(map) == {map[i].key : i \in 1..Len(map)}

PositionOf(map, key) == CHOOSE i \in 1..Len(map) : map[i].key = key

\* a call comes back from its evaluation
FinishStep == Len(pending') < Len(pending)

\* a call comes back from the cache
HitStep == fromCache' /\ pending' = pending /\ now' = now

\* a call goes to its evaluation
EvaluateStep == Len(pending') > Len(pending)

\* C13: a result cached while the cache holds maxSize entries evicts exactly
\* one entry, the one inserted earliest among those present, the others
\* keeping their order; a result cached while there is room evicts none;
\* a cache hit leaves the cache and its order as they are.
C13_FifoEviction ==
    [][/\ (FinishStep /\ enabled /\ ret'.success /\ Len(cache) >= MaxSize) =>
            /\ KeysOf(cache') = KeysOf(Tail(cache)) \cup {KeyOf(call')}
            /\ \A i \in 2..Len(cache), j \in 2..Len(cache) :
                  i < j => PositionOf(cache', cache[i].key) < PositionOf(cache', cache[j].key)
            /\ evicted' = <<cache[1].key>> \/ cache[1].key = KeyOf(call')
            /\ Len(cache') <= MaxSize
       /\ (FinishStep /\ enabled /\ ret'.success /\ Len(cache) < MaxSize) =>
            /\ KeysOf(cache') = KeysOf(cache) \cup {KeyOf(call')}
            /\ evicted' = <<>>
       /\ HitStep => cache' = cache
      ]_vars

\* h, g and k were cached in turn with maxSize 2: h is evicted, g and k stay
C13_Witness ==
    /\ pc = "returned"
    /\ call = ParseCall(<<"k">>, DocP)
    /\ ~fromCache
    /\ evicted = <<KeyOf(ParseCall(<<"h">>, DocP))>>
    /\ Len(cache) = MaxSize
    /\ cache[Len(cache)].key = KeyOf(call)
    /\ KeyOf(ParseCall(<<"g">>, DocP)) \in KeysOf(cache)

EntryOf(map, c) == map[PositionOf(map, KeyOf(c))]

\* C14: parseRule returns a cached outcome, marked fromCache, only when
\* the entry's age is strictly less than ttl; a lookup that finds an entry
\* of age >= ttl removes it and evaluates the rule, and the outcome then
\* returned is the fresh one, not marked fromCache.
C14_TtlExpiry ==
    [][/\ HitStep =>
            /\ enabled
            /\ KeyOf(call') \in KeysOf(cache)
            /\ now - EntryOf(cache, call').timestamp < Ttl
            /\ ret' = EntryOf(cache, call').result
       /\ (EvaluateStep /\ enabled
              /\ KeyOf(pending'[Len(pending')]) \in KeysOf(cache)) =>
            /\ now - EntryOf(cache, pending'[Len(pending')]).timestamp >= Ttl
            /\ KeysOf(cache') = KeysOf(cache) \ {KeyOf(pending'[Len(pending')])}
       /\ FinishStep =>
            /\ ~fromCache'
            /\ ret' = Uncached(call')
      ]_vars

\* g was evaluated and cached; a later lookup found the entry too old,
\* removed it, and the rule is being evaluated again
C14_Witness ==
    /\ pc = "returned"
    /\ enabled
    /\ ~fromCache
    /\ ret.success
    /\ call = ParseCall(<<"g">>, DocP)
    /\ now >= Ttl
    /\ cache = <<>>
    /\ pending = <<call>>

(***************************************************************************)
(* Properties of the selector dispatch (Spec).                             *)
(***************************************************************************)
\* the rule holds no operator: it is one selector segment
OneSegment ==
    /\ ~includes(rule, <<"|", "|">>)
    /\ ~includes(rule, <<"&", "&">>)
    /\ ~includes(rule, <<"#", "#">>)

\* the prefixes as the specification spells them, with the selector of each
Prefixes ==
    { [prefix |-> CSS, kind |-> "css"],
      [prefix |-> <<"@", "x", "p", "a", "t", "h", ":">>, kind |-> "xpath"],
      [prefix |-> JSON, kind |-> "json"],
      [prefix |-> REGEX, kind |-> "regex"],
      [prefix |-> JS, kind |-> "js"],
      [prefix |-> TEXT, kind |-> "text"] }

Prefixed(p) == startsWith(trim(rule), p.prefix)

\* the segment with the prefix stripped; a literal text keeps its
\* trailing whitespace
Stripped(p) ==
    LET segment == IF p.kind = "text" THEN trimStart(rule) ELSE trim(rule)
    IN SubSeq(segment, Len(p.prefix) + 1, Len(segment))

\* the call of selector p.kind on expression e, as the selectors log it
CallOf(p, e) == IF p.kind = "css" THEN e ELSE p.prefix \o e

\* C15: a segment starting with `@css:`, `@xpath:`, `@json:`, `@regex:`,
\* `@js:` or `@text:` is evaluated by the css, xpath, json, regex, js or
\* text selector on the segment with the prefix stripped; a segment with
\* none of these prefixes is evaluated by the CSS selector.
C15_PrefixDispatch ==
    (pc \in {"returned", "thrown"} /\ OneSegment /\ trim(rule) # <<>>) =>
        /\ \A p \in Prefixes :
              Prefixed(p) =>
                 /\ calls = <<CallOf(p, Stripped(p))>>
                 /\ pc = "returned" => ret.selector = p.kind
        /\ (\A p \in Prefixes : ~Prefixed(p)) =>
                 /\ calls = <<trim(rule)>>
                 /\ pc = "returned" => ret.selector = "css"

(***************************************************************************)
(* Properties of parseBatch (SpecBatch).                                   *)
(***************************************************************************)
\* what parse produces for the i-th named rule
ParseOf(i) == parse(source, batch[i].value, options)

\* the outcomes of the results mapping, by name
OutcomesOf(name) ==
    {batchRet.results.own[i].value :
        i \in {j \in 1..Len(batchRet.results.own) : batchRet.results.own[j].key = name}}

InErrors(name) ==
    batchRet.errors # Undefined
        /\ \E e \in 1..Len(batchRet.errors.items) : batchRet.errors.items[e].key = name

\* C16: parseBatch returns, and never throws; the results mapping has
\* exactly one outcome per rule name; totalCount is the number of rules;
\* successCount is the number of outcomes with success = true, at most
\* totalCount; a rule whose evaluation throws appears as a failed outcome
\* and in the errors list, and the other rules have the outcome parse
\* gives them.
C16_BatchEvaluation ==
    pc = "returned" =>
        /\ Len(batchRet.results.own) = Len(batch)
        /\ batchRet.totalCount = Len(batch)
        /\ batchRet.successCount =
              Cardinality({i \in 1..Len(batch) : ~ParseOf(i).thrown /\ ParseOf(i).out.success})
        /\ batchRet.successCount <= batchRet.totalCount
        /\ \A i \in 1..Len(batch) :
              /\ Cardinality(OutcomesOf(batch[i].key)) = 1
              /\ ParseOf(i).thrown =>
                    /\ \A out \in OutcomesOf(batch[i].key) : ~out.success
                    /\ InErrors(batch[i].key)
              /\ ~ParseOf(i).thrown =>
                    /\ OutcomesOf(batch[i].key) = {ParseOf(i).out}
                    /\ ~InErrors(batch[i].key)

\* the property of C16 on the rule names other than __proto__
C16_OrdinaryNames ==
    (\E i \in 1..Len(batch) : batch[i].key = ProtoKey) \/ C16_BatchEvaluation

(***************************************************************************)
(* Properties of literal text in a concatenation (Spec).                   *)
(***************************************************************************)
\* the rule is segments joined by " && ", with no other operator token
IsConcatenation ==
    /\ ~includes(rule, OrToken)
    /\ Len(ConcatAtoms) >= 2
    /\ \A k \in 1..Len(ConcatAtoms) :
          ConcatAtoms[k] # <<>> /\ ~includes(ConcatAtoms[k], AndToken)

IsTextSegment(a) == startsWith(trimStart(a), TEXT)

\* the characters between the prefix and the delimiter
LiteralOf(a) == SubSeq(trimStart(a), Len(TEXT) + 1, Len(trimStart(a)))

IsQuoted(text) ==
    \/ startsWith(text, <<DQ>>) /\ endsWith(text, <<DQ>>)
    \/ startsWith(text, <<SQ>>) /\ endsWith(text, <<SQ>>)

\* a literal text that is neither quoted nor followed by a clean-up
IsPlainText(a) ==
    /\ IsTextSegment(a)
    /\ ~IsQuoted(LiteralOf(a))
    /\ ~includes(a, CleanDelimiter)

\* the trimmed value of a segment, nothing when it has no value
TrimmedValue(result) ==
    IF Valid(result) THEN trim(result.out.data.v[1]) ELSE <<>>

\* the value of a segment, nothing when it has no value
OwnValue(result) ==
    IF Valid(result) THEN Stringified(result.out) ELSE <<>>

RECURSIVE JoinedAsStated(_, _)
JoinedAsStated(atoms, k) ==
    IF k > Len(atoms) THEN <<>>
    ELSE (IF IsTextSegment(atoms[k]) THEN LiteralOf(atoms[k])
          ELSE TrimmedValue(Alone(atoms[k])))
             \o JoinedAsStated(atoms, k + 1)

RECURSIVE Joined(_, _)
Joined(atoms, k) ==
    IF k > Len(atoms) THEN <<>>
    ELSE (IF IsPlainText(atoms[k]) THEN LiteralOf(atoms[k])
          ELSE IF IsTextSegment(atoms[k]) THEN OwnValue(Alone(atoms[k]))
          ELSE TrimmedValue(Alone(atoms[k])))
             \o Joined(atoms, k + 1)

UnitValue(a, b) ==
    IF Valid(Alone(a)) THEN OwnValue(Alone(a)) ELSE OwnValue(Alone(b))

\* C18: `X && (A || B)` evaluates the parenthesized sub-rule as one unit:
\* the result is stringify(X) followed by the value of A if A succeeds and
\* otherwise the value of B.
C18_ParenthesizedSubRule ==
    \A x \in NestedOuter, a \in NestedFirst, b \in NestedSecond :
        (Done /\ rule = Nested(x, a, b) /\ Valid(Alone(x))
              /\ (Valid(Alone(a)) \/ Valid(Alone(b)))) =>
            /\ pc = "returned"
            /\ ret.data = Str(OwnValue(Alone(x)) \o UnitValue(a, b))

(***************************************************************************)
(* Properties of the fallback tokenizer (SpecFallbackTok).                 *)
(***************************************************************************)
\* the rule cut at every `||` outside the quoted literals, a literal
\* running from a quote to the next same quote that no backslash escapes;
\* the pieces are trimmed
RECURSIVE QuoteAwareSplit(_, _, _, _)
QuoteAwareSplit(s, i, current, quote) ==
    IF i > Len(s) THEN <<trim(current)>>
    ELSE IF quote # "" /\ s[i] = BS /\ i + 1 <= Len(s) /\ s[i + 1] \in {quote, BS}
    THEN QuoteAwareSplit(s, i + 2, current \o <<s[i], s[i + 1]>>, quote)
    ELSE IF quote # "" /\ s[i] = quote
    THEN QuoteAwareSplit(s, i + 1, Append(current, s[i]), "")
    ELSE IF quote = "" /\ s[i] \in {DQ, SQ}
    THEN QuoteAwareSplit(s, i + 1, Append(current, s[i]), s[i])
    ELSE IF quote = "" /\ s[i] = "|" /\ i + 1 <= Len(s) /\ s[i + 1] = "|"
    THEN <<trim(current)>> \o QuoteAwareSplit(s, i + 2, <<>>, "")
    ELSE QuoteAwareSplit(s, i + 1, Append(current, s[i]), quote)

\* a last segment that is empty is not returned
WithoutEmptyLast(pieces) ==
    IF pieces[Len(pieces)] = <<>> THEN SubSeq(pieces, 1, Len(pieces) - 1) ELSE pieces

\* C19: parseFallbackRule splits a rule only at the `||` that lie outside
\* single- and double-quoted literals, a backslash-escaped quote inside a
\* literal not ending it; no whitespace around `||` is needed and every
\* segment is trimmed.
C19_QuoteAwareFallback ==
    pc = "returned" => segs = WithoutEmptyLast(QuoteAwareSplit(rule, 1, <<>>, ""))

\* the property of C19 on the rules that hold no backslash
C19_WithoutEscapes ==
    includes(rule, <<BS>>) \/ C19_QuoteAwareFallback

(***************************************************************************)
(* Properties of the concatenation segments (SpecTok).                     *)
(***************************************************************************)
\* the texts on the sides of the " && " delimiters outside the literals,
\* found from left to right
RECURSIVE SidesOf(_, _, _)
SidesOf(s, i, start) ==
    IF i > Len(s) THEN <<SubSeq(s, start, Len(s))>>
    ELSE IF matchAt(s, i, ConcatDelimiter) /\ ~InLiteral(s, i)
    THEN <<SubSeq(s, start, i - 1)>>
             \o SidesOf(s, i + Len(ConcatDelimiter), i + Len(ConcatDelimiter))
    ELSE SidesOf(s, i + 1, start)

Sides == SidesOf(rule, 1, 1)

SyntaxErrors == {SpacingError, EmptySegmentError}

\* C20: parseConcatRule throws a SyntaxError whenever the text on a side of
\* a ` && ` delimiter is empty after trimming; the segments it returns for a
\* rule with at least one delimiter are one per side and none is empty.
C20_NoEmptySegment ==
    pc \in {"returned", "thrown"} =>
        /\ (Len(Sides) > 1 /\ \E k \in 1..Len(Sides) : trim(Sides[k]) = <<>>) =>
              pc = "thrown" /\ thrown \in SyntaxErrors
        /\ (pc = "returned" /\ Len(Sides) > 1) =>
              /\ Len(segs) = Len(Sides)
              /\ \A k \in 1..Len(segs) : trim(segs[k]) # <<>>

\* `a && `: a legal delimiter with nothing on its right
C20_Witness ==
    /\ pc = "thrown"
    /\ rule = <<"a", SP, AMP, AMP, SP>>
    /\ thrown = EmptySegmentError

(***************************************************************************)
(* Properties of the clean-up rules (Spec).                                *)
(***************************************************************************)
\* selector##pattern: a valid selector, a pattern and no replacement part
IsPatternOnly ==
    /\ ~includes(rule, OrToken)
    /\ ~includes(rule, AndToken)
    /\ Len(CleanPieces) = 2
    /\ CleanPieces[2] # <<>>
    /\ Valid(Alone(CleanPieces[1]))

\* C21: a rule `selector##pattern` with no replacement part is accepted and
\* returns the selector's value with every match of pattern removed.
C21_PatternOnlyCleanup ==
    (Done /\ IsPatternOnly) =>
        /\ pc = "returned"
        /\ ret.data = Str(replaceAll(Alone(CleanPieces[1]).out.data.v[1],
                                     CleanPieces[2], <<>>))

(***************************************************************************)
(* Properties of the cache under interleaved calls (SpecCache).            *)
(***************************************************************************)
\* C22: whatever the calls, interleaved at their await or not, the cache
\* never holds more than maxSize entries and never two entries of one key.
C22_CacheBounded ==
    /\ Len(cache) <= MaxSize
    /\ \A i \in 1..Len(cache), j \in 1..Len(cache) :
          cache[i].key = cache[j].key => i = j

\* two calls of one key were in flight together, both having missed: one
\* has stored its result in the full cache, the other is still to store
C22_Witness ==
    /\ pc = "returned"
    /\ enabled
    /\ ~fromCache
    /\ ret.success
    /\ pending = <<call>>
    /\ Len(cache) = MaxSize
    /\ KeyOf(call) \in KeysOf(cache)
    /\ EntryOf(cache, call).timestamp = now

\* C27: every cache entry holds an outcome with success = true, and an
\* evaluation that failed neither creates nor replaces an entry.
C27_OnlySuccessesCached ==
    [][/\ \A i \in 1..Len(cache') : cache'[i].result.success
       /\ (FinishStep /\ ~ret'.success) => cache' = cache
      ]_vars

\* the failing rule n was evaluated with the cache enabled and holding an
\* entry: the cache is as it was
C27_Witness ==
    /\ pc = "returned"
    /\ enabled
    /\ ~fromCache
    /\ ~ret.success
    /\ call = ParseCall(<<"n">>, DocP)
    /\ cache # <<>>
    /\ KeyOf(call) \notin KeysOf(cache)

(***************************************************************************)
(* Properties of the order of execution (SpecOps).                         *)
(***************************************************************************)
\* C23: in one call of fallbackOperator or concatOperator the sub-rules are
\* executed one at a time in increasing index order from the first, and no
\* sub-rule is executed more than once, also when every fallback sub-rule
\* fails.
C23_OnceInOrder ==
    (FallbackReturned \/ ConcatReturned) =>
        /\ Len(executed) <= Len(selectors)
        /\ \A i \in 1..Len(executed) : executed[i] = i - 1

\* the property of C23 on the calls in which not every fallback sub-rule
\* fails
C23_OnceUnlessAllFail ==
    (FallbackReturned /\ Len(selectors) > 0 /\ AllFail) \/ C23_OnceInOrder

(***************************************************************************)
(* Properties of a concatenation whose sub-rules all fail (SpecOps).       *)
(***************************************************************************)
\* C24 as stated: if every sub-rule fails or yields empty data,
\* concatOperator returns success=false, for every separator and either
\* setting of ignoreEmpty.
C24_AsStated ==
    (ConcatReturned /\ AllFail) => ~ret.success

\* the separators that join the empty strings kept for n failed sub-rules
RECURSIVE SeparatorsOnly(_, _)
SeparatorsOnly(n, sep) == IF n <= 1 THEN <<>> ELSE sep \o SeparatorsOnly(n - 1, sep)

\* C24 amended: if every sub-rule fails or yields empty data, concatOperator
\* returns success=false when ignoreEmpty is true, when the separator is
\* empty or when there is at most one sub-rule; with ignoreEmpty=false, a
\* non-empty separator and two or more sub-rules it returns success=true
\* with data made of the separators alone.
C24_AllFailConcat ==
    (ConcatReturned /\ AllFail) =>
        /\ options.ignoreEmpty => ~ret.success /\ ret.data = Str(<<>>)
        /\ ~options.ignoreEmpty =>
              /\ ret.data = Str(SeparatorsOnly(Len(selectors), options.separator))
              /\ ret.success = (Len(selectors) >= 2 /\ options.separator # <<>>)

\* two failing sub-rules, ignoreEmpty=false and a separator: the separator
\* alone comes back as a success
C24_Witness ==
    /\ ConcatReturned
    /\ AllFail
    /\ Len(selectors) = 2
    /\ ~options.ignoreEmpty
    /\ options.separator # <<>>
    /\ ret.success
    /\ ret.data = Str(options.separator)

(***************************************************************************)
(* Properties of a malformed clean-up pattern (Spec).                      *)
(***************************************************************************)
\* selector##pattern##replacement with a pattern that is no regular
\* expression
IsMalformedCleanup ==
    /\ ~includes(rule, OrToken)
    /\ ~includes(rule, AndToken)
    /\ Len(CleanPieces) >= 3
    /\ CleanPieces[2] # <<>>
    /\ ~validPattern(CleanPieces[2])

\* C25: when the pattern of `selector##pattern##replacement` is not a valid
\* regular expression, RuleEngine.parse throws an error that carries the
\* pattern text and returns no outcome.
C25_MalformedPattern ==
    (Done /\ IsMalformedCleanup) =>
        /\ pc = "thrown"
        /\ includes(thrown, CleanPieces[2])

C25_Raised == Done /\ IsMalformedCleanup /\ pc = "thrown"

\* the property of C25 on the rules whose selector has a value
C25_WhenSelected ==
    (Done /\ IsMalformedCleanup /\ ~Valid(Alone(CleanPieces[1]))) \/ C25_MalformedPattern

(***************************************************************************)
(* Completeness of the split of parseConcatRule (SpecTok).                 *)
(***************************************************************************)
HasBareAnd(s) == \E i \in 1..Len(s) : BareAnd(s, i)

\* C29: no segment returned by parseConcatRule contains a && outside a
\* quoted literal: every bare && of an accepted rule is a split point.
C29_CompleteSplit ==
    pc = "returned" => \A k \in 1..Len(segs) : ~HasBareAnd(segs[k])

\* the property of C29 on the rules without two bare && three characters
\* apart, which share the space between them
C29_ApartOperators ==
    (\E i \in 1..Len(rule) : BareAnd(rule, i) /\ BareAnd(rule, i + 3))
        \/ C29_CompleteSplit

(***************************************************************************)
(* Properties of the index suffix (SpecSelector).                          *)
(***************************************************************************)
Bracket == indexMatch(withoutPrefix(rule))

IsInteger(s) ==
    LET ds == IF s # <<>> /\ Head(s) = "-" THEN Tail(s) ELSE s IN
    ds # <<>> /\ \A i \in 1..Len(ds) : isDigit(ds[i])

IsIntegerList(s) ==
    LET parts == split(s, <<",">>) IN \A i \in 1..Len(parts) : IsInteger(trim(parts[i]))

IsIntegerRange(s) ==
    LET parts == split(s, <<":">>) IN
    Len(parts) = 2 /\ IsInteger(trim(parts[1])) /\ IsInteger(trim(parts[2]))

\* a single integer, a comma-separated list of integers or a start:end range
WellFormedIndex(s) == IsIntegerList(s) \/ IsIntegerRange(s)

\* C26: when the bracket content of `expr[spec]` is no integer, no list of
\* integers and no range of integers, _parseSelector returns the expression
\* unchanged and attaches no index.
C26_FailsClosed ==
    (pc = "returned" /\ Bracket.matched /\ ~WellFormedIndex(Bracket.index)) =>
        /\ descriptor.expression = withoutPrefix(rule)
        /\ descriptor.index = NoIndex

\* what _parseSelector does: a bracket with any content is cut out of the
\* expression and becomes the index, its values numbers where parseInt finds
\* one and the trimmed text elsewhere
C26_AlwaysAttached ==
    pc = "returned" =>
        /\ Bracket.matched =>
              /\ descriptor.expression = Bracket.base \o Bracket.after
              /\ descriptor.index # NoIndex
        /\ ~Bracket.matched =>
              /\ descriptor.expression = withoutPrefix(rule)
              /\ descriptor.index = NoIndex

(***************************************************************************)
(* Properties of the asynchronous facade (SpecFacade).                     *)
(***************************************************************************)
IsFallbackPair == includes(rule, OrToken) /\ Len(parseFallbackRule(rule)) = 2

IsConcatPair ==
    /\ ~includes(rule, OrToken)
    /\ includes(rule, AndToken)
    /\ ~parseConcatRule(rule).thrown
    /\ Len(parseConcatRule(rule).rules) = 2

\* the outcome sub-rule k of the rule completes with
Completed(k) ==
    handleSingleSelector(source,
                         IF includes(rule, OrToken) THEN parseFallbackRule(rule)[k]
                         ELSE parseConcatRule(rule).rules[k])

\* C30: BookSourceRuleEngine.parseRule gives the operators the completed
\* outcomes of the sub-rules: `A || B` returns success with the value of A
\* when A succeeds, `A && B` returns the joined values when both succeed.
C30_ResolvedOutcomes ==
    pc = "returned" =>
        /\ (IsFallbackPair /\ Valid(Completed(1))) =>
              ret.success /\ ret.data = Completed(1).out.data
        /\ (IsConcatPair /\ Valid(Completed(1)) /\ Valid(Completed(2))) =>
              /\ ret.success
              /\ ret.data = Str(processDataForConcat(Completed(1).out.data, "css")
                                   \o processDataForConcat(Completed(2).out.data, "css"))

\* what parseRule returns on an operator rule: the operators read a promise,
\* which has no success property, so every sub-rule counts as failed
C30_EverySubRuleFails ==
    (pc = "returned" /\ (IsFallbackPair \/ IsConcatPair)) =>
        /\ ~ret.success
        /\ IsFallbackPair => ret.data = Null
        /\ IsConcatPair => ret.data = Str(<<>>)

\* parseRule has returned while a promise of a sub-rule is still pending
C30_ReturnedBeforeSettled ==
    /\ pc = "returned"
    /\ IsFallbackPair
    /\ Valid(Completed(1))
    /\ \E i \in 1..Len(promises) : promises[i].state = "pending"

(***************************************************************************)
(* Properties of the nesting of parseRule (SpecNesting).                   *)
(***************************************************************************)
\* C28: the parseRule calls in progress are never more than options.maxDepth
\* deep, and each of them was given a rule strictly shorter than the rule of
\* the call that made it.
C28_BoundedNesting ==
    /\ Len(stack) <= maxDepth
    /\ \A i \in 1..(Len(stack) - 1) : Len(stack[i + 1].rule) < Len(stack[i].rule)

\* the nesting on the rules whose operators all lie outside quoted literals
C28_BareOperators ==
    (includes(rule, QuotedOr) \/ includes(rule, QuotedAnd)) \/ C28_BoundedNesting

\* on those rules the calls, taken one at a time, end with what parse gives
C28_SameResult ==
    (Done /\ ~includes(rule, QuotedOr) /\ ~includes(rule, QuotedAnd)) =>
        LET whole == parse(source, rule, options) IN
        /\ (pc = "thrown") = whole.thrown
        /\ ret = whole.out
        /\ thrown = whole.message
        /\ calls = whole.calls

\* a call made for the same rule as its parent, deeper than maxDepth
C28_SameRuleBelow ==
    /\ Len(stack) > maxDepth
    /\ stack[Len(stack)].rule = stack[Len(stack) - 1].rule

====
